---- MODULE Spec2Model ----
(***************************************************************************)
(* Position reconciliation and incremental merge engine of valhalla-fjorge.*)
(*                                                                         *)
(* Representation of the Python values:                                    *)
(*   - Optional[...] : None is the empty tuple <<>>, a value v is <<v>>.   *)
(*   - Decimal / float SOL amounts : integers, unit 0.00001 SOL.           *)
(*   - percentages (pnl_pct, price_drop) : integers, unit 0.001 percent.   *)
(*   - market cap : integer, unit 0.001 USD.                               *)
(*   - "[HH:MM]" timestamps : the integer HHMM, the empty string is 0.     *)
(*   - "YYYY-MM-DD" dates : the integer YYYYMMDD, the empty string is 0.   *)
(*   - ISO datetimes "<date>T<HH:MM>:00" : the record [date, time]; the    *)
(*     empty string is [date |-> 0, time |-> 0], "T15:08:00" has date 0.   *)
(*   - token_age "5h ago" : the record [v |-> 5, u |-> "h"]; the empty     *)
(*     string is [v |-> 0, u |-> ""].                                      *)
(***************************************************************************)
EXTENDS Integers, Sequences, FiniteSets, TLC

None == <<>>

Some(v) == <<v>>

Val(o) == o[1]

\* ROUND_HALF_EVEN of q + r / b, for 0 <= r < b.
RoundHalfEven(q, r, b) ==
  IF 2 * r < b THEN q
  ELSE IF 2 * r > b THEN q + 1
  ELSE IF q % 2 = 0 THEN q ELSE q + 1

\* ROUND_HALF_EVEN quotient a / b for b > 0 (Decimal quantize / format).
DivRound(a, b) == RoundHalfEven(a \div b, a % b, b)

\* f"{x:.4f}" of an amount, f"{x:.2f}" of a percentage or market cap:
\* one decimal digit of the model's unit is rounded away.
FormatFixed(x) == DivRound(x, 10) * 10

FormatOptional(o) == IF o = None THEN None ELSE Some(FormatFixed(Val(o)))

MaxOf(S) == CHOOSE m \in S : \A x \in S : x <= m

RECURSIVE SumSeq(_)
SumSeq(s) == IF s = <<>> THEN 0 ELSE Head(s) + SumSeq(Tail(s))

----------------------------------------------------------------------------
(* models.py                                                               *)

NoDatetime == [date |-> 0, time |-> 0]

NoAge == [v |-> 0, u |-> ""]

make_iso_datetime(date_str, time_str) ==
  IF time_str = 0 THEN NoDatetime
  ELSE [date |-> date_str, time |-> time_str]

\* (age_days, age_hours)
normalize_token_age(age_str) ==
  IF age_str = NoAge THEN <<None, None>>
  ELSE IF age_str.u = "h"
       THEN <<Some(IF age_str.v < 24 THEN 0 ELSE age_str.v \div 24), Some(age_str.v)>>
  ELSE IF age_str.u = "d" THEN <<Some(age_str.v), Some(age_str.v * 24)>>
  ELSE IF age_str.u = "w" THEN <<Some(age_str.v * 7), Some(age_str.v * 7 * 24)>>
  ELSE IF age_str.u = "mo" THEN <<Some(age_str.v * 30), Some(age_str.v * 30 * 24)>>
  ELSE IF age_str.u = "yr" THEN <<Some(age_str.v * 365), Some(age_str.v * 365 * 24)>>
  ELSE <<None, None>>

OpenEvent(timestamp, position_type, token_name, target, market_cap, token_age, jup_score, your_sol, position_id, date) ==
  [kind |-> "Open", timestamp |-> timestamp, position_type |-> position_type,
   token_name |-> token_name, target |-> target, market_cap |-> market_cap,
   token_age |-> token_age, jup_score |-> jup_score, your_sol |-> your_sol,
   position_id |-> position_id, date |-> date]

CloseEvent(timestamp, target, starting_sol, ending_sol, position_id, date) ==
  [kind |-> "Close", timestamp |-> timestamp, target |-> target,
   starting_sol |-> starting_sol, ending_sol |-> ending_sol,
   position_id |-> position_id, date |-> date]

\* position_id None is the empty string (both are falsy in the matcher).
RugEvent(timestamp, target, position_address, price_drop, position_id, date) ==
  [kind |-> "Rug", timestamp |-> timestamp, target |-> target,
   position_address |-> position_address, price_drop |-> price_drop,
   position_id |-> position_id, date |-> date]

FailsafeEvent(timestamp, position_id, date) ==
  [kind |-> "Failsafe", timestamp |-> timestamp, position_id |-> position_id,
   date |-> date]

AddLiquidityEvent(timestamp, position_id, target, amount_sol, date) ==
  [kind |-> "AddLiquidity", timestamp |-> timestamp, position_id |-> position_id,
   target |-> target, amount_sol |-> amount_sol, date |-> date]

MeteoraPnlResult(deposited_sol, withdrawn_sol, fees_sol, pnl_sol) ==
  [deposited_sol |-> deposited_sol, withdrawn_sol |-> withdrawn_sol,
   fees_sol |-> fees_sol, pnl_sol |-> pnl_sol]

----------------------------------------------------------------------------
(* event_parser.py: the per-kind event lists, each in message order        *)

OfKind(log, k) == SelectSeq(log, LAMBDA e : e.kind = k)

EventParser(log) ==
  [open_events |-> OfKind(log, "Open"),
   close_events |-> OfKind(log, "Close"),
   rug_events |-> OfKind(log, "Rug"),
   failsafe_events |-> OfKind(log, "Failsafe"),
   add_liquidity_events |-> OfKind(log, "AddLiquidity")]

----------------------------------------------------------------------------
(* matcher.py                                                              *)

\* Mutant: the first Open event of the id is kept.
open_by_id_first(parser, pid) ==
  LET S == {i \in DOMAIN parser.open_events : parser.open_events[i].position_id = pid}
  IN  parser.open_events[CHOOSE i \in S : \A j \in S : i <= j]

\* open_by_id: the last Open event of each id.
open_by_id(parser, pid) ==
  parser.open_events[MaxOf({i \in DOMAIN parser.open_events :
                             parser.open_events[i].position_id = pid})]

open_ids(parser) ==
  {parser.open_events[i].position_id : i \in DOMAIN parser.open_events}

failsafe_ids(parser) ==
  {parser.failsafe_events[i].position_id : i \in DOMAIN parser.failsafe_events}

\* Mutant: every AddLiquidity amount of the log is added, whatever its id.
sol_deployed_of_any_id(parser, pid) ==
  open_by_id(parser, pid).your_sol
    + SumSeq([i \in DOMAIN parser.add_liquidity_events |->
                parser.add_liquidity_events[i].amount_sol])

\* your_sol of the Open plus every AddLiquidity amount of the same id.
sol_deployed_of(parser, pid) ==
  LET liq == SelectSeq(parser.add_liquidity_events, LAMBDA e : e.position_id = pid)
  IN  open_by_id(parser, pid).your_sol
        + SumSeq([i \in DOMAIN liq |-> liq[i].amount_sol])

\* Mutant: the ratio pnl / deployed, not multiplied by 100.
pct_of_ratio(pnl, deployed) ==
  IF deployed > 0 THEN (pnl * 1000) \div deployed ELSE 0

\* pnl / deployed * 100 if deployed > 0 else 0: the Decimal quotient kept to
\* the model's unit, pnl * 100000 / deployed by long division (32-bit range).
pct_of(pnl, deployed) ==
  IF deployed > 0
  THEN LET q1 == (pnl * 1000) \div deployed
           r1 == (pnl * 1000) % deployed
       IN  RoundHalfEven(q1 * 100 + (r1 * 100) \div deployed,
                         (r1 * 100) % deployed, deployed)
  ELSE 0

\* Mutant: a rug loses the whole deployed amount.
estimated_loss_of_total(sol_deployed, price_drop) == sol_deployed

\* sol_deployed * price_drop / 100: sol_deployed * price_drop / 100000 in the
\* model's units, by parts (32-bit range).
estimated_loss_of(sol_deployed, price_drop) ==
  LET hi == sol_deployed * (price_drop \div 1000)
      n == (hi % 100) * 1000 + sol_deployed * (price_drop % 1000)
  IN  RoundHalfEven(hi \div 100 + n \div 100000, n % 100000, 100000)

\* A MatchedPosition carries timestamp_open and timestamp_close: every
\* constructor call of matcher.py and merge.py passes them (the dataclass of
\* valhalla_parser_v2.py declares them); positions.csv has no column for them.

\* Open-side fields of a Position built from an indexed Open event.
OpenSide(open_event) ==
  [timestamp_open |-> open_event.timestamp,
   token |-> open_event.token_name,
   position_type |-> open_event.position_type,
   mc_at_open |-> open_event.market_cap,
   jup_score |-> open_event.jup_score,
   token_age |-> open_event.token_age,
   token_age_days |-> normalize_token_age(open_event.token_age)[1],
   token_age_hours |-> normalize_token_age(open_event.token_age)[2],
   datetime_open |-> make_iso_datetime(open_event.date, open_event.timestamp)]

\* Open-side fields of a Position with no indexed Open event.
UnknownOpenSide ==
  [timestamp_open |-> 0, token |-> "unknown", position_type |-> "unknown",
   mc_at_open |-> 0, jup_score |-> 0, token_age |-> NoAge,
   token_age_days |-> None, token_age_hours |-> None,
   datetime_open |-> NoDatetime]

\* MeteoraFields built without the pnl_source keyword: the dataclass default.
MeteoraFields_default_source(meteora_result) ==
  [sol_deployed |-> Some(meteora_result.deposited_sol),
   sol_received |-> Some(meteora_result.withdrawn_sol),
   pnl_sol |-> Some(meteora_result.pnl_sol),
   pnl_pct |-> Some(pct_of(meteora_result.pnl_sol, meteora_result.deposited_sol)),
   pnl_source |-> "pending",
   meteora_deposited |-> Some(meteora_result.deposited_sol),
   meteora_withdrawn |-> Some(meteora_result.withdrawn_sol),
   meteora_fees |-> Some(meteora_result.fees_sol),
   meteora_pnl |-> Some(meteora_result.pnl_sol)]

\* Mutant: the meteora_fees keyword is left out of the constructor call.
MeteoraFields_no_fees(meteora_result) ==
  [sol_deployed |-> Some(meteora_result.deposited_sol),
   sol_received |-> Some(meteora_result.withdrawn_sol),
   pnl_sol |-> Some(meteora_result.pnl_sol),
   pnl_pct |-> Some(pct_of(meteora_result.pnl_sol, meteora_result.deposited_sol)),
   pnl_source |-> "meteora",
   meteora_deposited |-> Some(meteora_result.deposited_sol),
   meteora_withdrawn |-> Some(meteora_result.withdrawn_sol),
   meteora_fees |-> None,
   meteora_pnl |-> Some(meteora_result.pnl_sol)]

MeteoraFields(meteora_result) ==
  [sol_deployed |-> Some(meteora_result.deposited_sol),
   sol_received |-> Some(meteora_result.withdrawn_sol),
   pnl_sol |-> Some(meteora_result.pnl_sol),
   pnl_pct |-> Some(pct_of(meteora_result.pnl_sol, meteora_result.deposited_sol)),
   pnl_source |-> "meteora",
   meteora_deposited |-> Some(meteora_result.deposited_sol),
   meteora_withdrawn |-> Some(meteora_result.withdrawn_sol),
   meteora_fees |-> Some(meteora_result.fees_sol),
   meteora_pnl |-> Some(meteora_result.pnl_sol)]

DiscordFields(sol_deployed, sol_received, pnl_sol, pnl_pct) ==
  [sol_deployed |-> Some(sol_deployed), sol_received |-> Some(sol_received),
   pnl_sol |-> Some(pnl_sol), pnl_pct |-> Some(pnl_pct),
   pnl_source |-> "discord",
   meteora_deposited |-> None, meteora_withdrawn |-> None,
   meteora_fees |-> None, meteora_pnl |-> None]

\* PendingFields with Decimal('0') where the amounts are unknown.
PendingFields_zero ==
  [sol_deployed |-> Some(0), sol_received |-> Some(0), pnl_sol |-> Some(0),
   pnl_pct |-> Some(0), pnl_source |-> "pending",
   meteora_deposited |-> None, meteora_withdrawn |-> None,
   meteora_fees |-> None, meteora_pnl |-> None]

PendingFields ==
  [sol_deployed |-> None, sol_received |-> None, pnl_sol |-> None,
   pnl_pct |-> None, pnl_source |-> "pending",
   meteora_deposited |-> None, meteora_withdrawn |-> None,
   meteora_fees |-> None, meteora_pnl |-> None]

\* The close-side and identity fields of a MatchedPosition.
CloseSide(event, close_reason, price_drop_pct, pid, full_addr) ==
  [timestamp_close |-> event.timestamp, target_wallet |-> event.target,
   close_reason |-> close_reason, price_drop_pct |-> price_drop_pct,
   position_id |-> pid, full_address |-> full_addr,
   datetime_close |-> make_iso_datetime(event.date, event.timestamp)]

Get(map, key, default) == IF key \in DOMAIN map THEN map[key] ELSE default

\* The Position built for one Close event (lines 58-249).
ClosePosition(parser, close_event, meteora_results, resolved_addresses, use_discord_pnl) ==
  LET pid == close_event.position_id
      full_addr == Get(resolved_addresses, pid, "")
  IN  IF pid \in open_ids(parser)
      THEN LET open_event == open_by_id(parser, pid)
               sol_deployed == sol_deployed_of(parser, pid)
               sol_received == close_event.ending_sol - close_event.starting_sol
               pnl_sol == sol_received - sol_deployed
               pnl_pct == pct_of(pnl_sol, sol_deployed)
               close_reason == IF pid \in failsafe_ids(parser) THEN "failsafe" ELSE "normal"
               side == OpenSide(open_event)
                         @@ CloseSide(close_event, close_reason, None, pid, full_addr)
           IN  IF pid \in DOMAIN meteora_results
               THEN side @@ MeteoraFields(meteora_results[pid])
               ELSE IF use_discord_pnl
               THEN side @@ DiscordFields(sol_deployed, sol_received, pnl_sol, pnl_pct)
               ELSE side @@ PendingFields
      ELSE LET side == UnknownOpenSide
                         @@ CloseSide(close_event, "unknown_open", None, pid, full_addr)
               sol_received == close_event.ending_sol - close_event.starting_sol
           IN  IF pid \in DOMAIN meteora_results
               THEN side @@ MeteoraFields(meteora_results[pid])
               ELSE IF use_discord_pnl
               THEN side @@ DiscordFields(0, sol_received, sol_received, 0)
               ELSE side @@ PendingFields

\* The Position built for one Rug event (lines 253-492); resolved_addresses
\* already holds the address the event itself carries.
RugPosition(parser, rug_event, meteora_results, resolved_addresses, use_discord_pnl) ==
  LET pid == rug_event.position_id
      full_addr == Get(resolved_addresses, pid, "")
  IN  IF pid # ""
      THEN IF pid \in open_ids(parser)
           THEN LET open_event == open_by_id(parser, pid)
                    sol_deployed == sol_deployed_of(parser, pid)
                    estimated_loss == estimated_loss_of(sol_deployed, rug_event.price_drop)
                    side == OpenSide(open_event)
                              @@ CloseSide(rug_event, "rug", Some(rug_event.price_drop),
                                           pid, full_addr)
                IN  IF pid \in DOMAIN meteora_results
                    THEN side @@ MeteoraFields(meteora_results[pid])
                    ELSE IF use_discord_pnl
                    THEN side @@ DiscordFields(sol_deployed, 0, 0 - estimated_loss,
                                               0 - rug_event.price_drop)
                    ELSE side @@ PendingFields
           ELSE LET side == UnknownOpenSide
                              @@ CloseSide(rug_event, "rug_unknown_open",
                                           Some(rug_event.price_drop), pid, full_addr)
                IN  IF pid \in DOMAIN meteora_results
                    THEN side @@ MeteoraFields(meteora_results[pid])
                    ELSE IF use_discord_pnl
                    THEN side @@ DiscordFields(0, 0, 0, 0)
                    ELSE side @@ PendingFields
      ELSE LET side == UnknownOpenSide
                         @@ CloseSide(rug_event, "rug_unknown_open",
                                      Some(rug_event.price_drop), "", "")
           IN  IF use_discord_pnl
               THEN side @@ DiscordFields(0, 0, 0, 0)
               ELSE side @@ PendingFields

\* Loop over close_events (lines 52-249): duplicates of a consumed id are skipped.
RECURSIVE CloseLoop(_, _, _, _, _, _, _)
CloseLoop(parser, i, matched_ids, matched_positions, meteora_results, resolved_addresses, use_discord_pnl) ==
  IF i > Len(parser.close_events)
  THEN [matched_ids |-> matched_ids, matched_positions |-> matched_positions]
  ELSE LET close_event == parser.close_events[i]
           pid == close_event.position_id
       IN  IF pid \in matched_ids
           THEN CloseLoop(parser, i + 1, matched_ids, matched_positions,
                          meteora_results, resolved_addresses, use_discord_pnl)
           ELSE CloseLoop(parser, i + 1, matched_ids \cup {pid},
                          Append(matched_positions,
                                 ClosePosition(parser, close_event, meteora_results,
                                               resolved_addresses, use_discord_pnl)),
                          meteora_results, resolved_addresses, use_discord_pnl)

\* Loop over rug_events (lines 252-492): every Rug event emits a Position, and a
\* Rug event with an id and a full address extends resolved_addresses.
RECURSIVE RugLoop(_, _, _, _, _, _, _)
RugLoop(parser, i, matched_ids, matched_positions, meteora_results, resolved_addresses, use_discord_pnl) ==
  IF i > Len(parser.rug_events)
  THEN [matched_ids |-> matched_ids, matched_positions |-> matched_positions,
        resolved_addresses |-> resolved_addresses]
  ELSE LET rug_event == parser.rug_events[i]
           pid == rug_event.position_id
           resolved == IF pid # "" /\ rug_event.position_address # ""
                          /\ pid \notin DOMAIN resolved_addresses
                       THEN resolved_addresses @@ (pid :> rug_event.position_address)
                       ELSE resolved_addresses
       IN  RugLoop(parser, i + 1,
                   IF pid # "" THEN matched_ids \cup {pid} ELSE matched_ids,
                   Append(matched_positions,
                          RugPosition(parser, rug_event, meteora_results,
                                      resolved, use_discord_pnl)),
                   meteora_results, resolved, use_discord_pnl)

\* Mutant: unmatched_opens filtered by the ids the Close events consumed only.
match_positions_close_ids(parser, meteora_results, resolved_addresses, use_discord_pnl) ==
  LET closes == CloseLoop(parser, 1, {}, <<>>, meteora_results,
                          resolved_addresses, use_discord_pnl)
      rugs == RugLoop(parser, 1, closes.matched_ids, closes.matched_positions,
                      meteora_results, resolved_addresses, use_discord_pnl)
  IN  [matched_positions |-> rugs.matched_positions,
       unmatched_opens |-> SelectSeq(parser.open_events,
                                     LAMBDA o : o.position_id \notin closes.matched_ids),
       resolved_addresses |-> rugs.resolved_addresses]

match_positions(parser, meteora_results, resolved_addresses, use_discord_pnl) ==
  LET closes == CloseLoop(parser, 1, {}, <<>>, meteora_results,
                          resolved_addresses, use_discord_pnl)
      rugs == RugLoop(parser, 1, closes.matched_ids, closes.matched_positions,
                      meteora_results, resolved_addresses, use_discord_pnl)
  IN  [matched_positions |-> rugs.matched_positions,
       unmatched_opens |-> SelectSeq(parser.open_events,
                                     LAMBDA o : o.position_id \notin rugs.matched_ids),
       resolved_addresses |-> rugs.resolved_addresses]

----------------------------------------------------------------------------
(* csv_writer.py: positions.csv as the sequence of its data rows           *)

\* _sort_key: the datetime when it starts with a digit (has a date), else "".
SortKey(datetime_open) ==
  IF datetime_open.date > 0
  THEN <<datetime_open.date, datetime_open.time>>
  ELSE <<0, 0>>

\* String order of two sort keys.
KeyLess(k1, k2) == k1[1] < k2[1] \/ (k1[1] = k2[1] /\ k1[2] < k2[2])

\* sorted(..., reverse=True): descending, equal keys keep their order.
RECURSIVE SortNewestFirst(_, _)
SortNewestFirst(sorted, rest) ==
  IF rest = <<>> THEN sorted
  ELSE LET x == Head(rest)
           k == SortKey(x.datetime_open)
       IN  SortNewestFirst(
             SelectSeq(sorted, LAMBDA e : ~KeyLess(SortKey(e.datetime_open), k))
               \o <<x>> \o
             SelectSeq(sorted, LAMBDA e : KeyLess(SortKey(e.datetime_open), k)),
             Tail(rest))

\* The row written for a MatchedPosition (lines 49-74).
PositionRow(pos) ==
  [datetime_open |-> pos.datetime_open,
   datetime_close |-> pos.datetime_close,
   target_wallet |-> pos.target_wallet,
   token |-> pos.token,
   position_type |-> pos.position_type,
   sol_deployed |-> FormatOptional(pos.sol_deployed),
   sol_received |-> FormatOptional(pos.sol_received),
   pnl_sol |-> FormatOptional(pos.pnl_sol),
   pnl_pct |-> FormatOptional(pos.pnl_pct),
   close_reason |-> pos.close_reason,
   mc_at_open |-> FormatFixed(pos.mc_at_open),
   jup_score |-> pos.jup_score,
   token_age |-> pos.token_age,
   token_age_days |-> pos.token_age_days,
   token_age_hours |-> pos.token_age_hours,
   price_drop_pct |-> IF pos.price_drop_pct # None /\ Val(pos.price_drop_pct) # 0
                      THEN FormatOptional(pos.price_drop_pct) ELSE None,
   position_id |-> pos.position_id,
   full_address |-> pos.full_address,
   pnl_source |-> pos.pnl_source,
   meteora_deposited |-> FormatOptional(pos.meteora_deposited),
   meteora_withdrawn |-> FormatOptional(pos.meteora_withdrawn),
   meteora_fees |-> FormatOptional(pos.meteora_fees),
   meteora_pnl |-> FormatOptional(pos.meteora_pnl)]

\* The row written for a still-open OpenEvent (lines 77-105).
StillOpenRow(open_event) ==
  [datetime_open |-> make_iso_datetime(open_event.date, open_event.timestamp),
   datetime_close |-> NoDatetime,
   target_wallet |-> open_event.target,
   token |-> open_event.token_name,
   position_type |-> open_event.position_type,
   sol_deployed |-> Some(FormatFixed(open_event.your_sol)),
   sol_received |-> None,
   pnl_sol |-> None,
   pnl_pct |-> None,
   close_reason |-> "still_open",
   mc_at_open |-> FormatFixed(open_event.market_cap),
   jup_score |-> open_event.jup_score,
   token_age |-> open_event.token_age,
   token_age_days |-> normalize_token_age(open_event.token_age)[1],
   token_age_hours |-> normalize_token_age(open_event.token_age)[2],
   price_drop_pct |-> None,
   position_id |-> open_event.position_id,
   full_address |-> "",
   pnl_source |-> "",
   meteora_deposited |-> None,
   meteora_withdrawn |-> None,
   meteora_fees |-> None,
   meteora_pnl |-> None]

generate_positions_csv(matched_positions, unmatched_opens) ==
  SortNewestFirst(<<>>, [i \in DOMAIN matched_positions |->
                           PositionRow(matched_positions[i])])
    \o
  SortNewestFirst(<<>>, [i \in DOMAIN unmatched_opens |->
                           StillOpenRow(unmatched_opens[i])])

----------------------------------------------------------------------------
(* merge.py                                                                *)

\* The MatchedPosition read back from a row (lines 83-109).  positions.csv
\* has no timestamp_open / timestamp_close column: both are read as ''.
existing_pos_of(row) ==
  [timestamp_open |-> 0,
   timestamp_close |-> 0,
   target_wallet |-> row.target_wallet,
   token |-> row.token,
   position_type |-> row.position_type,
   sol_deployed |-> row.sol_deployed,
   sol_received |-> row.sol_received,
   pnl_sol |-> row.pnl_sol,
   pnl_pct |-> row.pnl_pct,
   close_reason |-> row.close_reason,
   mc_at_open |-> row.mc_at_open,
   jup_score |-> row.jup_score,
   token_age |-> row.token_age,
   token_age_days |-> row.token_age_days,
   token_age_hours |-> row.token_age_hours,
   price_drop_pct |-> row.price_drop_pct,
   position_id |-> row.position_id,
   full_address |-> row.full_address,
   pnl_source |-> row.pnl_source,
   meteora_deposited |-> row.meteora_deposited,
   meteora_withdrawn |-> row.meteora_withdrawn,
   meteora_fees |-> row.meteora_fees,
   meteora_pnl |-> row.meteora_pnl,
   datetime_open |-> row.datetime_open,
   datetime_close |-> row.datetime_close]

\* Mutant: the ids of the list itself, an id once for each of its items.
DictKeys_every(keys, items) ==
  keys \o SelectSeq([i \in DOMAIN items |-> items[i].position_id],
                    LAMBDA pid : pid # "")

\* Keys of a dict built by assignment in list order: the non-empty ids in the
\* order of their first occurrence.
RECURSIVE DictKeys(_, _)
DictKeys(keys, items) ==
  IF items = <<>> THEN keys
  ELSE LET pid == Head(items).position_id
       IN  DictKeys(IF pid = "" \/ \E i \in DOMAIN keys : keys[i] = pid
                    THEN keys ELSE Append(keys, pid),
                    Tail(items))

\* Value of such a dict: the last item with the id.
DictValue(items, pid) ==
  items[MaxOf({i \in DOMAIN items : items[i].position_id = pid})]

HasKey(items, pid) == \E i \in DOMAIN items : items[i].position_id = pid

is_fully_complete(pos) ==
  LET has_open == pos.close_reason \notin {"unknown_open", "rug_unknown_open"}
      has_close == pos.close_reason # "still_open"
      has_meteora == pos.pnl_source = "meteora"
  IN  has_open /\ has_close /\ has_meteora

\* Mutant: the close_reason upgrade always gives "normal".
enrich_existing_with_open_normal(existing, new_pos) ==
  LET take_age == new_pos.token_age # NoAge
  IN  [existing EXCEPT
         !.timestamp_open = IF new_pos.timestamp_open # 0
                            THEN new_pos.timestamp_open ELSE @,
         !.datetime_open = IF new_pos.datetime_open # NoDatetime
                           THEN new_pos.datetime_open ELSE @,
         !.token = IF new_pos.token # "" /\ new_pos.token # "unknown"
                   THEN new_pos.token ELSE @,
         !.position_type = IF new_pos.position_type # ""
                              /\ new_pos.position_type # "unknown"
                           THEN new_pos.position_type ELSE @,
         !.mc_at_open = IF new_pos.mc_at_open > 0 THEN new_pos.mc_at_open ELSE @,
         !.jup_score = IF new_pos.jup_score > 0 THEN new_pos.jup_score ELSE @,
         !.token_age = IF take_age THEN new_pos.token_age ELSE @,
         !.token_age_days = IF take_age THEN new_pos.token_age_days ELSE @,
         !.token_age_hours = IF take_age THEN new_pos.token_age_hours ELSE @,
         !.close_reason = IF @ \in {"unknown_open", "rug_unknown_open"}
                          THEN "normal" ELSE @]

enrich_existing_with_open(existing, new_pos) ==
  LET take_age == new_pos.token_age # NoAge
  IN  [existing EXCEPT
         !.timestamp_open = IF new_pos.timestamp_open # 0
                            THEN new_pos.timestamp_open ELSE @,
         !.datetime_open = IF new_pos.datetime_open # NoDatetime
                           THEN new_pos.datetime_open ELSE @,
         !.token = IF new_pos.token # "" /\ new_pos.token # "unknown"
                   THEN new_pos.token ELSE @,
         !.position_type = IF new_pos.position_type # ""
                              /\ new_pos.position_type # "unknown"
                           THEN new_pos.position_type ELSE @,
         !.mc_at_open = IF new_pos.mc_at_open > 0 THEN new_pos.mc_at_open ELSE @,
         !.jup_score = IF new_pos.jup_score > 0 THEN new_pos.jup_score ELSE @,
         !.token_age = IF take_age THEN new_pos.token_age ELSE @,
         !.token_age_days = IF take_age THEN new_pos.token_age_days ELSE @,
         !.token_age_hours = IF take_age THEN new_pos.token_age_hours ELSE @,
         !.close_reason = IF @ = "rug_unknown_open" THEN "rug"
                          ELSE IF @ = "unknown_open" THEN "normal"
                          ELSE @]

\* The temporary MatchedPosition built from a still-open event (lines 180-203).
open_as_matched(new_still_open_event, position_id) ==
  [timestamp_open |-> new_still_open_event.timestamp,
   timestamp_close |-> 0,
   target_wallet |-> new_still_open_event.target,
   token |-> new_still_open_event.token_name,
   position_type |-> new_still_open_event.position_type,
   sol_deployed |-> IF new_still_open_event.your_sol # 0
                    THEN Some(new_still_open_event.your_sol) ELSE None,
   sol_received |-> None, pnl_sol |-> None, pnl_pct |-> None,
   close_reason |-> "",
   mc_at_open |-> new_still_open_event.market_cap,
   jup_score |-> new_still_open_event.jup_score,
   token_age |-> new_still_open_event.token_age,
   token_age_days |-> normalize_token_age(new_still_open_event.token_age)[1],
   token_age_hours |-> normalize_token_age(new_still_open_event.token_age)[2],
   price_drop_pct |-> None,
   position_id |-> position_id,
   full_address |-> "", pnl_source |-> "",
   meteora_deposited |-> None, meteora_withdrawn |-> None,
   meteora_fees |-> None, meteora_pnl |-> None,
   datetime_open |-> IF new_still_open_event.date # 0
                        /\ new_still_open_event.timestamp # 0
                     THEN [date |-> new_still_open_event.date,
                           time |-> new_still_open_event.timestamp]
                     ELSE NoDatetime,
   datetime_close |-> NoDatetime]

\* The OpenEvent rebuilt from a persisted still_open row (lines 229-243).
open_event_of(existing_pos, position_id) ==
  OpenEvent(existing_pos.timestamp_open,
            existing_pos.position_type,
            existing_pos.token,
            existing_pos.target_wallet,
            existing_pos.mc_at_open,
            existing_pos.token_age,
            existing_pos.jup_score,
            IF existing_pos.sol_deployed # None /\ Val(existing_pos.sol_deployed) # 0
            THEN Val(existing_pos.sol_deployed) ELSE 0,
            position_id,
            existing_pos.datetime_open.date)

\* The else branch of Rule 4: no new data for the id.
KeepExisting(position_id, existing_pos) ==
  IF existing_pos.close_reason = "still_open"
  THEN [matched |-> <<>>, still_open |-> <<open_event_of(existing_pos, position_id)>>]
  ELSE [matched |-> <<existing_pos>>, still_open |-> <<>>]

\* Mutant: the new data wins before the meteora rules are looked at.
merge_existing_new_wins(position_id, existing_pos, new_matched_pos, new_still_open_event) ==
  IF new_matched_pos # None
  THEN [matched |-> <<Val(new_matched_pos)>>, still_open |-> <<>>]
  ELSE IF new_still_open_event # None
  THEN [matched |-> <<>>, still_open |-> <<Val(new_still_open_event)>>]
  ELSE KeepExisting(position_id, existing_pos)

\* Mutant: every meteora record is enriched, the complete ones too.
merge_existing_enrich_any(position_id, existing_pos, new_matched_pos, new_still_open_event) ==
  IF existing_pos.pnl_source = "meteora"
  THEN IF new_matched_pos # None /\ Val(new_matched_pos).timestamp_open # 0
       THEN [matched |-> <<enrich_existing_with_open(existing_pos, Val(new_matched_pos))>>,
             still_open |-> <<>>]
       ELSE IF new_still_open_event # None
       THEN [matched |-> <<enrich_existing_with_open(
                             existing_pos,
                             open_as_matched(Val(new_still_open_event), position_id))>>,
             still_open |-> <<>>]
       ELSE [matched |-> <<existing_pos>>, still_open |-> <<>>]
  ELSE IF new_matched_pos # None
  THEN [matched |-> <<Val(new_matched_pos)>>, still_open |-> <<>>]
  ELSE IF new_still_open_event # None
  THEN [matched |-> <<>>, still_open |-> <<Val(new_still_open_event)>>]
  ELSE KeepExisting(position_id, existing_pos)

\* Mutant: a persisted closed record is never replaced, only a still_open one.
merge_existing_keep_closed(position_id, existing_pos, new_matched_pos, new_still_open_event) ==
  IF existing_pos.close_reason # "still_open"
  THEN [matched |-> <<existing_pos>>, still_open |-> <<>>]
  ELSE IF new_matched_pos # None
  THEN [matched |-> <<Val(new_matched_pos)>>, still_open |-> <<>>]
  ELSE IF new_still_open_event # None
  THEN [matched |-> <<>>, still_open |-> <<Val(new_still_open_event)>>]
  ELSE KeepExisting(position_id, existing_pos)

\* One iteration of the loop over existing_by_id (lines 160-247).
\* new_matched_pos and new_still_open_event are None or Some(...).
merge_existing(position_id, existing_pos, new_matched_pos, new_still_open_event) ==
  IF is_fully_complete(existing_pos)
  THEN [matched |-> <<existing_pos>>, still_open |-> <<>>]
  ELSE IF existing_pos.pnl_source = "meteora"
          /\ existing_pos.close_reason \in {"unknown_open", "rug_unknown_open"}
  THEN IF new_matched_pos # None /\ Val(new_matched_pos).timestamp_open # 0
       THEN [matched |-> <<enrich_existing_with_open(existing_pos, Val(new_matched_pos))>>,
             still_open |-> <<>>]
       ELSE IF new_still_open_event # None
       THEN [matched |-> <<enrich_existing_with_open(
                             existing_pos,
                             open_as_matched(Val(new_still_open_event), position_id))>>,
             still_open |-> <<>>]
       ELSE [matched |-> <<existing_pos>>, still_open |-> <<>>]
  ELSE IF existing_pos.pnl_source = "meteora"
  THEN [matched |-> <<existing_pos>>, still_open |-> <<>>]
  ELSE IF new_matched_pos # None
  THEN [matched |-> <<Val(new_matched_pos)>>, still_open |-> <<>>]
  ELSE IF new_still_open_event # None
  THEN [matched |-> <<>>, still_open |-> <<Val(new_still_open_event)>>]
  ELSE KeepExisting(position_id, existing_pos)

Lookup(items, pid) == IF HasKey(items, pid) THEN Some(DictValue(items, pid)) ELSE None

RECURSIVE ExistingLoop(_, _, _, _, _)
ExistingLoop(keys, existing, new_matched, new_still_open, acc) ==
  IF keys = <<>> THEN acc
  ELSE LET position_id == Head(keys)
           m == merge_existing(position_id, DictValue(existing, position_id),
                               Lookup(new_matched, position_id),
                               Lookup(new_still_open, position_id))
       IN  ExistingLoop(Tail(keys), existing, new_matched, new_still_open,
                        [merged_matched |-> acc.merged_matched \o m.matched,
                         merged_still_open |-> acc.merged_still_open \o m.still_open])

\* Mutant: every item of the new dict is appended, the known ids too.
TrulyNew_all(keys, items, existing) ==
  [i \in DOMAIN keys |-> DictValue(items, keys[i])]

\* The items of a new dict whose id is not in existing_by_id (lines 250-258).
RECURSIVE TrulyNew(_, _, _)
TrulyNew(keys, items, existing) ==
  IF keys = <<>> THEN <<>>
  ELSE IF HasKey(existing, Head(keys))
       THEN TrulyNew(Tail(keys), items, existing)
       ELSE <<DictValue(items, Head(keys))>> \o TrulyNew(Tail(keys), items, existing)

merge_with_existing_csv(new_matched, new_still_open, existing_rows) ==
  LET existing == [i \in DOMAIN existing_rows |-> existing_pos_of(existing_rows[i])]
      kept == ExistingLoop(DictKeys(<<>>, existing), existing, new_matched,
                           new_still_open,
                           [merged_matched |-> <<>>, merged_still_open |-> <<>>])
  IN  [merged_matched |->
         kept.merged_matched
           \o TrulyNew(DictKeys(<<>>, new_matched), new_matched, existing),
       merged_still_open |->
         kept.merged_still_open
           \o TrulyNew(DictKeys(<<>>, new_still_open), new_still_open, existing)]

----------------------------------------------------------------------------
(* Inputs of a run                                                         *)

\* Longest log (number of bot messages) of one run.
MaxLog == 2

OpenA1 ==
  OpenEvent(1508, "Spot", "BadBunny", "W1", 1047047227, [v |-> 5, u |-> "h"],
            81, 200000, "AB12", 20260212)

\* Same id, seen in a log file without a date and with a zero score.
OpenA2 ==
  OpenEvent(915, "BidAsk", "Pepe", "W1", 0, [v |-> 3, u |-> "d"],
            0, 123456, "AB12", 0)

OpenB ==
  OpenEvent(1000, "Spot", "Wif", "W2", 5000000, [v |-> 2, u |-> "w"],
            55, 100000, "CD34", 20260213)

CloseA == CloseEvent(1710, "W1", 1000000, 1260000, "AB12", 20260212)

CloseB == CloseEvent(1130, "W2", 500000, 590000, "CD34", 20260213)

RugA == RugEvent(1800, "W1", "AB12xxxxAB12", 40000, "AB12", 20260212)

RugNoId == RugEvent(1900, "W3", "EF56xxxxEF56", 25000, "", 20260212)

FailsafeA == FailsafeEvent(1709, "AB12", 20260212)

AddLiquidityA == AddLiquidityEvent(1600, "AB12", "W1", 50000, 20260212)

\* Messages of the logs fed to the incremental pipeline.
Messages == {OpenA1, OpenA2, OpenB, CloseA, RugA, RugNoId}

RECURSIVE SeqsUpTo(_, _)
SeqsUpTo(S, n) ==
  IF n = 0 THEN {<<>>}
  ELSE LET shorter == SeqsUpTo(S, n - 1)
       IN  shorter \cup {Append(s, x) : s \in shorter, x \in S}

Logs == SeqsUpTo(Messages, MaxLog)

ResultA1 == MeteoraPnlResult(200004, 150000, 10000, -40004)

ResultA2 == MeteoraPnlResult(100000, 112345, 0, 12345)

\* What address resolution and the PnL calculator returned for the run:
\* resolved_addresses and meteora_results.
Remote ==
  {[resolved_addresses |-> <<>>, meteora_results |-> <<>>],
   [resolved_addresses |-> ("AB12" :> "AB12xxxxAB12"),
    meteora_results |-> ("AB12" :> ResultA1)],
   [resolved_addresses |-> ("AB12" :> "AB12xxxxAB12"),
    meteora_results |-> ("AB12" :> ResultA2)]}

PositionIds == {"AB12", "CD34"}

----------------------------------------------------------------------------
(* meteora.py: MeteoraPnlCalculator                                        *)
(*                                                                         *)
(* Units of this section: SOL amounts are integers in 0.001 SOL, USD       *)
(* amounts integers in 0.01 USD, a SOL price an integer in 0.01 USD per    *)
(* SOL.  A Decimal division is rounded to that unit with Decimal's default *)
(* rounding (half even).                                                   *)

SOL_MINT == "So11111111111111111111111111111111111111112"

\* Model units per SOL.
MilliPerSol == 1000

\* Raw amounts of the API are counted here in units of 10^6 lamports, which
\* makes the 10^9 lamports of one SOL 1000 raw units.
LAMPORTS == 1000

\* MeteoraPnlCalculator() as main constructs it: no Moralis pricer.
pricer == None

\* A response of _meteora_get: not requested, None (any error), or the JSON.
NotFetched == [fetched |-> FALSE, ok |-> FALSE, body |-> <<>>]

Failed == [fetched |-> TRUE, ok |-> FALSE, body |-> <<>>]

Ok(body) == [fetched |-> TRUE, ok |-> TRUE, body |-> body]

\* A test that takes a failed request for an empty list.
is_none_never(resp) == FALSE

\* `deposits is None`: the request failed.  An empty list is not None.
is_none(resp) == ~resp.ok

\* `not pos_info`, `not pair_info`: the request failed.
falsy(resp) == ~resp.ok

\* Decimal(str(v)) of every amount the helper reads: raises
\* decimal.InvalidOperation when one of them is not a number (JSON null).
decimal_raises(entry) == ~entry.numeric

\* The helper _tx_sol_equiv: (sol_amount, sol_equiv_total, total_usd,
\* sol_price_used).  A key missing from the entry reads as 0.
tx_sol_equiv(entry, sol_is_x, fallback_sol_price, market_price_usd) ==
  LET sol_raw == IF sol_is_x THEN entry.token_x_amount ELSE entry.token_y_amount
      sol_amt == DivRound(sol_raw * MilliPerSol, LAMPORTS)
      sol_usd == IF sol_is_x THEN entry.token_x_usd_amount
                 ELSE entry.token_y_usd_amount
      tok_usd == IF sol_is_x THEN entry.token_y_usd_amount
                 ELSE entry.token_x_usd_amount
      sol_price == IF sol_amt > 0 /\ sol_usd > 0
                   THEN DivRound(sol_usd * MilliPerSol, sol_amt)
                   ELSE fallback_sol_price
      converted == IF tok_usd > 0 /\ sol_price > 0
                   THEN DivRound(tok_usd * MilliPerSol, sol_price)
                   ELSE 0
      corrects == /\ sol_amt = 0
                  /\ market_price_usd # None
                  /\ Val(market_price_usd) # 0
                  /\ sol_price > 0
                  /\ entry.price > 0
                  /\ DivRound(Val(market_price_usd) * MilliPerSol, sol_price) > 0
      token_sol_equiv ==
        IF corrects
        THEN DivRound(DivRound(tok_usd * MilliPerSol, sol_price)
                        * DivRound(Val(market_price_usd) * MilliPerSol, sol_price),
                      entry.price)
        ELSE converted
  IN  [sol_amt |-> sol_amt, equiv |-> sol_amt + token_sol_equiv,
       usd |-> sol_usd + tok_usd, price |-> sol_price]

\* The Moralis price of a token-only withdrawal; None without a pricer.
market_price_of(entry, sol_is_x) ==
  IF pricer # None
     /\ (IF sol_is_x THEN entry.token_x_amount ELSE entry.token_y_amount) = 0
     /\ entry.onchain_timestamp # 0
  THEN Val(pricer)
  ELSE None

ZeroTotals == [sol_total |-> 0, sol_equiv |-> 0, usd |-> 0]

\* A loop that keeps the first SOL price it sees as the running price.
RECURSIVE TxLoop_first_price(_, _, _, _)
TxLoop_first_price(entries, sol_is_x, with_market, acc) ==
  IF entries = <<>> \/ acc.raised THEN acc
  ELSE LET entry == Head(entries)
           t == tx_sol_equiv(entry, sol_is_x, acc.running_sol_price, None)
       IN  IF decimal_raises(entry)
           THEN [acc EXCEPT !.raised = TRUE]
           ELSE TxLoop_first_price(Tail(entries), sol_is_x, with_market,
                       [totals |-> [sol_total |-> acc.totals.sol_total + t.sol_amt,
                                    sol_equiv |-> acc.totals.sol_equiv + t.equiv,
                                    usd |-> acc.totals.usd + t.usd],
                        running_sol_price |-> IF acc.running_sol_price > 0
                                              THEN acc.running_sol_price
                                              ELSE t.price,
                        raised |-> FALSE])

\* One of the three accumulation loops.  acc is the loop's state: the
\* totals, the running SOL price and whether an entry raised.
RECURSIVE TxLoop(_, _, _, _)
TxLoop(entries, sol_is_x, with_market, acc) ==
  IF entries = <<>> \/ acc.raised THEN acc
  ELSE LET entry == Head(entries)
           t == tx_sol_equiv(entry, sol_is_x, acc.running_sol_price,
                             IF with_market THEN market_price_of(entry, sol_is_x)
                             ELSE None)
       IN  IF decimal_raises(entry)
           THEN [acc EXCEPT !.raised = TRUE]
           ELSE TxLoop(Tail(entries), sol_is_x, with_market,
                       [totals |-> [sol_total |-> acc.totals.sol_total + t.sol_amt,
                                    sol_equiv |-> acc.totals.sol_equiv + t.equiv,
                                    usd |-> acc.totals.usd + t.usd],
                        running_sol_price |-> IF t.price > 0 THEN t.price
                                              ELSE acc.running_sol_price,
                        raised |-> FALSE])

\* A calculation that leaves the claimed fees out of the PnL.
pnl_result_of_no_fees(dep, wdr, fee) ==
  MeteoraPnlResult(dep.sol_equiv, wdr.sol_equiv, fee.sol_equiv,
                   wdr.sol_equiv - dep.sol_equiv)
  @@ [deposited_usd |-> dep.usd, withdrawn_usd |-> wdr.usd, fees_usd |-> fee.usd,
      pnl_usd |-> wdr.usd - dep.usd]

\* The MeteoraPnlResult calculate_pnl returns from the three totals.
pnl_result_of(dep, wdr, fee) ==
  MeteoraPnlResult(dep.sol_equiv, wdr.sol_equiv, fee.sol_equiv,
                   wdr.sol_equiv + fee.sol_equiv - dep.sol_equiv)
  @@ [deposited_usd |-> dep.usd, withdrawn_usd |-> wdr.usd, fees_usd |-> fee.usd,
      pnl_usd |-> wdr.usd + fee.usd - dep.usd]

\* _get_sol_side on a fetched pair: (sol_is_x, sol_is_y, token_mint) or None.
sol_side_of(pair_info) ==
  IF falsy(pair_info) THEN None
  ELSE LET sol_is_x == pair_info.body.mint_x = SOL_MINT
           sol_is_y == pair_info.body.mint_y = SOL_MINT
       IN  IF ~(sol_is_x \/ sol_is_y) THEN None
           ELSE Some([sol_is_x |-> sol_is_x, sol_is_y |-> sol_is_y,
                      token_mint |-> IF sol_is_x THEN pair_info.body.mint_y
                                     ELSE pair_info.body.mint_x])

----------------------------------------------------------------------------
(* The incremental pipeline: match a log, merge into positions.csv, write  *)

VARIABLES
  pc,                 \* "idle", "matched", "written" (no merge) or "merged"
  csv_exists,         \* positions.csv exists
  positions_csv,      \* its data rows
  new_matched,        \* matcher output of the current run
  new_still_open,
  existing_rows,      \* rows the current run read from positions.csv
  merged_matched,     \* what merge_with_existing_csv returned
  merged_still_open

mergeVars ==
  <<pc, csv_exists, positions_csv, new_matched, new_still_open,
    existing_rows, merged_matched, merged_still_open>>

\* One call of PositionMatcher.match_positions on its own.
VARIABLES
  call,               \* the parsed log and the arguments of the call
  returned            \* None before the call returns, Some(result) after

matchVars == <<call, returned>>

\* One MeteoraPnlCalculator and its calls of calculate_pnl.
VARIABLES
  pnl_pc,             \* the request the call makes next, or "returned"
  pair_cache,         \* self._pair_cache: pair address -> SOL side
  responses,          \* what _meteora_get returned to the current call
  sol_side,           \* locals of the current call
  running_sol_price,
  dep_totals,
  wdr_totals,
  fee_totals,
  pnl_result          \* the value the last call returned

pnlVars ==
  <<pnl_pc, pair_cache, responses, sol_side, running_sol_price,
    dep_totals, wdr_totals, fee_totals, pnl_result>>

\* One call of merge_positions_csvs, and a second call over its output.
VARIABLES
  merge_inputs,       \* csv_paths of the first call: the files' rows
  merge_output,       \* None before the call, Some(rows written) after
  remerge_inputs,     \* csv_paths of the second call
  remerge_output

unionVars == <<merge_inputs, merge_output, remerge_inputs, remerge_output>>

\* One call of merge_with_imported.
VARIABLES
  import_args,        \* the four arguments of the call
  import_result       \* None before the call returns, Some(result) after

importVars == <<import_args, import_result>>

\* One SolanaRpcClient and its calls of get_transaction.
VARIABLES
  rpc_pc,             \* "idle", "request" or "returned"
  rpc_attempt,        \* the loop variable of the current call
  rpc_delay,          \* self._delay, in 0.1 s
  rpc_requests,       \* requests the current call has sent
  rpc_slept,          \* time slept after the last request
  rpc_outcome,        \* what the last request came back with
  rpc_return          \* the value the last call returned

rpcVars ==
  <<rpc_pc, rpc_attempt, rpc_delay, rpc_requests, rpc_slept, rpc_outcome,
    rpc_return>>

toolVars == <<unionVars, importVars, rpcVars>>

vars == <<mergeVars, matchVars, pnlVars, toolVars>>

\* Nothing merged or imported yet, and a new SolanaRpcClient.
ToolsIdle ==
  /\ merge_inputs = <<>>
  /\ merge_output = None
  /\ remerge_inputs = <<>>
  /\ remerge_output = None
  /\ import_args = <<>>
  /\ import_result = None
  /\ rpc_pc = "idle"
  /\ rpc_attempt = 0
  /\ rpc_delay = 7
  /\ rpc_requests = 0
  /\ rpc_slept = 0
  /\ rpc_outcome = "none"
  /\ rpc_return = None

NoResponses ==
  [pos_info |-> NotFetched, pair_info |-> NotFetched, deposits |-> NotFetched,
   withdraws |-> NotFetched, fees_list |-> NotFetched]

\* A new calculator on which calculate_pnl has not been called.
NewCalculator ==
  /\ pnl_pc = "position"
  /\ pair_cache = <<>>
  /\ responses = NoResponses
  /\ sol_side = None
  /\ running_sol_price = 0
  /\ dep_totals = ZeroTotals
  /\ wdr_totals = ZeroTotals
  /\ fee_totals = ZeroTotals
  /\ pnl_result = None

NoCall ==
  [log |-> <<>>, meteora_results |-> <<>>, resolved_addresses |-> <<>>,
   use_discord_pnl |-> FALSE]

Init ==
  /\ pc = "idle"
  /\ csv_exists = FALSE
  /\ positions_csv = <<>>
  /\ new_matched = <<>>
  /\ new_still_open = <<>>
  /\ existing_rows = <<>>
  /\ merged_matched = <<>>
  /\ merged_still_open = <<>>
  /\ call = NoCall
  /\ returned = None
  /\ NewCalculator
  /\ ToolsIdle

\* A run starts: the log is parsed and matched.
RunMatch(log, remote, use_discord_pnl) ==
  LET m == match_positions(EventParser(log), remote.meteora_results,
                           remote.resolved_addresses, use_discord_pnl)
  IN  /\ pc = "idle"
      /\ pc' = "matched"
      /\ new_matched' = m.matched_positions
      /\ new_still_open' = m.unmatched_opens
      /\ UNCHANGED <<csv_exists, positions_csv, existing_rows,
                     merged_matched, merged_still_open, matchVars, pnlVars, toolVars>>

\* No positions.csv yet: the matcher output is written as it is.
RunWrite ==
  /\ pc = "matched"
  /\ ~csv_exists
  /\ pc' = "written"
  /\ csv_exists' = TRUE
  /\ positions_csv' = generate_positions_csv(new_matched, new_still_open)
  /\ UNCHANGED <<new_matched, new_still_open, existing_rows,
                 merged_matched, merged_still_open, matchVars, pnlVars, toolVars>>

\* positions.csv exists: the matcher output is merged into its rows and the
\* merged lists replace the file.
RunMerge ==
  LET r == merge_with_existing_csv(new_matched, new_still_open, positions_csv)
  IN  /\ pc = "matched"
      /\ csv_exists
      /\ pc' = "merged"
      /\ existing_rows' = positions_csv
      /\ merged_matched' = r.merged_matched
      /\ merged_still_open' = r.merged_still_open
      /\ positions_csv' = generate_positions_csv(r.merged_matched, r.merged_still_open)
      /\ UNCHANGED <<csv_exists, new_matched, new_still_open, matchVars, pnlVars, toolVars>>

\* The run ends: only positions.csv outlives the process.
RunExit ==
  /\ pc \in {"written", "merged"}
  /\ pc' = "idle"
  /\ new_matched' = <<>>
  /\ new_still_open' = <<>>
  /\ existing_rows' = <<>>
  /\ merged_matched' = <<>>
  /\ merged_still_open' = <<>>
  /\ UNCHANGED <<csv_exists, positions_csv, matchVars, pnlVars, toolVars>>

Next ==
  \/ \E log \in Logs, remote \in Remote, use_discord_pnl \in BOOLEAN :
       RunMatch(log, remote, use_discord_pnl)
  \/ RunWrite
  \/ RunMerge
  \/ RunExit

Spec == Init /\ [][Next]_vars

----------------------------------------------------------------------------
(* match_positions called once on any parsed log                           *)

\* Longest log (number of bot messages) handed to the matcher.
MaxEvents == 3

\* An Open whose deployed amount was parsed as 0.
OpenZ ==
  OpenEvent(1100, "Spot", "Zero", "W2", 0, [v |-> 1, u |-> "h"], 10, 0, "CD34", 20260213)

AddLiquidityB == AddLiquidityEvent(1115, "CD34", "W2", 30000, 20260213)

MatchMessages ==
  Messages \cup {CloseB, FailsafeA, AddLiquidityA, OpenZ, AddLiquidityB}

ResultB == MeteoraPnlResult(100000, 95000, 2000, -3000)

\* Remote as above, and an address resolved without a PnL result, and
\* results for both ids.
MatchRemote ==
  Remote \cup
  {[resolved_addresses |-> ("AB12" :> "AB12xxxxAB12"), meteora_results |-> <<>>],
   [resolved_addresses |-> ("AB12" :> "AB12xxxxAB12") @@ ("CD34" :> "CD34xxxxCD34"),
    meteora_results |-> ("AB12" :> ResultA1) @@ ("CD34" :> ResultB)]}

MatchInit ==
  /\ pc = "idle"
  /\ csv_exists = FALSE
  /\ positions_csv = <<>>
  /\ new_matched = <<>>
  /\ new_still_open = <<>>
  /\ existing_rows = <<>>
  /\ merged_matched = <<>>
  /\ merged_still_open = <<>>
  /\ call \in {[log |-> log, meteora_results |-> remote.meteora_results,
                 resolved_addresses |-> remote.resolved_addresses,
                 use_discord_pnl |-> use_discord_pnl] :
                  log \in SeqsUpTo(MatchMessages, MaxEvents),
                  remote \in MatchRemote, use_discord_pnl \in BOOLEAN}
  /\ returned = None
  /\ NewCalculator
  /\ ToolsIdle

MatchPositions ==
  /\ returned = None
  /\ returned' = Some(match_positions(EventParser(call.log), call.meteora_results,
                                      call.resolved_addresses, call.use_discord_pnl))
  /\ UNCHANGED <<call, mergeVars, pnlVars, toolVars>>

MatchNext == MatchPositions

MatchSpec == MatchInit /\ [][MatchNext]_vars

----------------------------------------------------------------------------
(* calculate_pnl called on one calculator, any number of times             *)

\* Longest list the API returns for deposits, withdrawals or fee claims.
MaxTx == 2

\* 2.0 SOL worth 300 USD on the x side and no token.
TxSol ==
  [numeric |-> TRUE, token_x_amount |-> 2000, token_y_amount |-> 0,
   token_x_usd_amount |-> 30000, token_y_usd_amount |-> 0, price |-> 0,
   onchain_timestamp |-> 1770000000]

\* 1.0 of x worth 160 USD and 0.5 of y worth 80 USD.
TxBoth ==
  [numeric |-> TRUE, token_x_amount |-> 1000, token_y_amount |-> 500,
   token_x_usd_amount |-> 16000, token_y_usd_amount |-> 8000, price |-> 0,
   onchain_timestamp |-> 1770000600]

\* Nothing of x; 0.777 of y worth 16 USD.
TxToken ==
  [numeric |-> TRUE, token_x_amount |-> 0, token_y_amount |-> 777,
   token_x_usd_amount |-> 0, token_y_usd_amount |-> 1600, price |-> 0,
   onchain_timestamp |-> 1770001200]

\* An entry with a null amount.
TxMalformed ==
  [numeric |-> FALSE, token_x_amount |-> 0, token_y_amount |-> 0,
   token_x_usd_amount |-> 0, token_y_usd_amount |-> 0, price |-> 0,
   onchain_timestamp |-> 0]

Transactions == {TxSol, TxBoth, TxToken, TxMalformed}

PositionInfos ==
  {Failed, Ok([pair_address |-> ""]), Ok([pair_address |-> "PAIR"])}

PairInfos ==
  {Failed,
   Ok([mint_x |-> SOL_MINT, mint_y |-> "TOKEN"]),
   Ok([mint_x |-> "TOKEN", mint_y |-> SOL_MINT]),
   Ok([mint_x |-> "TOKEN", mint_y |-> "USDC"])}

TxLists == {Failed} \cup {Ok(l) : l \in SeqsUpTo(Transactions, MaxTx)}

LoopStart(price) ==
  [totals |-> ZeroTotals, running_sol_price |-> price, raised |-> FALSE]

\* calculate_pnl starts: the position is requested.
GetPosition(pos_info) ==
  /\ pnl_pc \in {"position", "returned"}
  /\ responses' = [NoResponses EXCEPT !.pos_info = pos_info]
  /\ sol_side' = None
  /\ running_sol_price' = 0
  /\ dep_totals' = ZeroTotals
  /\ wdr_totals' = ZeroTotals
  /\ fee_totals' = ZeroTotals
  /\ pnl_result' = None
  /\ pnl_pc' = IF falsy(pos_info) \/ pos_info.body.pair_address = ""
               THEN "returned" ELSE "pair"
  /\ UNCHANGED <<pair_cache, mergeVars, matchVars, toolVars>>

\* _get_sol_side answers from the cache.
SolSideCached ==
  LET pair_address == responses.pos_info.body.pair_address
  IN  /\ pnl_pc = "pair"
      /\ pair_address \in DOMAIN pair_cache
      /\ sol_side' = Some(pair_cache[pair_address])
      /\ pnl_pc' = "deposits"
      /\ UNCHANGED <<pair_cache, responses, running_sol_price, dep_totals,
                     wdr_totals, fee_totals, pnl_result, mergeVars, matchVars, toolVars>>

\* _get_sol_side requests the pair.
GetSolSide(pair_info) ==
  LET pair_address == responses.pos_info.body.pair_address
      side == sol_side_of(pair_info)
  IN  /\ pnl_pc = "pair"
      /\ pair_address \notin DOMAIN pair_cache
      /\ responses' = [responses EXCEPT !.pair_info = pair_info]
      /\ sol_side' = side
      /\ pair_cache' = IF side = None THEN pair_cache
                       ELSE (pair_address :> Val(side)) @@ pair_cache
      /\ pnl_pc' = IF side = None THEN "returned" ELSE "deposits"
      /\ UNCHANGED <<running_sol_price, dep_totals, wdr_totals, fee_totals,
                     pnl_result, mergeVars, matchVars, toolVars>>

GetDeposits(deposits) ==
  LET r == TxLoop(deposits.body, Val(sol_side).sol_is_x, FALSE,
                  LoopStart(running_sol_price))
  IN  /\ pnl_pc = "deposits"
      /\ responses' = [responses EXCEPT !.deposits = deposits]
      /\ IF is_none(deposits) \/ r.raised
         THEN /\ pnl_pc' = "returned"
              /\ UNCHANGED <<dep_totals, running_sol_price>>
         ELSE /\ pnl_pc' = "withdraws"
              /\ dep_totals' = r.totals
              /\ running_sol_price' = r.running_sol_price
      /\ UNCHANGED <<pair_cache, sol_side, wdr_totals, fee_totals, pnl_result,
                     mergeVars, matchVars, toolVars>>

GetWithdraws(withdraws) ==
  LET r == TxLoop(withdraws.body, Val(sol_side).sol_is_x, TRUE,
                  LoopStart(running_sol_price))
  IN  /\ pnl_pc = "withdraws"
      /\ responses' = [responses EXCEPT !.withdraws = withdraws]
      /\ IF is_none(withdraws) \/ r.raised
         THEN /\ pnl_pc' = "returned"
              /\ UNCHANGED <<wdr_totals, running_sol_price>>
         ELSE /\ pnl_pc' = "claim_fees"
              /\ wdr_totals' = r.totals
              /\ running_sol_price' = r.running_sol_price
      /\ UNCHANGED <<pair_cache, sol_side, dep_totals, fee_totals, pnl_result,
                     mergeVars, matchVars, toolVars>>

\* The last request; the result is computed and returned.
GetClaimFees(fees_list) ==
  LET r == TxLoop(fees_list.body, Val(sol_side).sol_is_x, FALSE,
                  LoopStart(running_sol_price))
  IN  /\ pnl_pc = "claim_fees"
      /\ responses' = [responses EXCEPT !.fees_list = fees_list]
      /\ pnl_pc' = "returned"
      /\ IF is_none(fees_list) \/ r.raised
         THEN UNCHANGED <<fee_totals, running_sol_price, pnl_result>>
         ELSE /\ fee_totals' = r.totals
              /\ running_sol_price' = r.running_sol_price
              /\ pnl_result' = Some(pnl_result_of(dep_totals, wdr_totals, r.totals))
      /\ UNCHANGED <<pair_cache, sol_side, dep_totals, wdr_totals,
                     mergeVars, matchVars, toolVars>>

PnlNext ==
  \/ \E pos_info \in PositionInfos : GetPosition(pos_info)
  \/ SolSideCached
  \/ \E pair_info \in PairInfos : GetSolSide(pair_info)
  \/ \E deposits \in TxLists : GetDeposits(deposits)
  \/ \E withdraws \in TxLists : GetWithdraws(withdraws)
  \/ \E fees_list \in TxLists : GetClaimFees(fees_list)

PnlSpec == Init /\ [][PnlNext]_vars

----------------------------------------------------------------------------
(* main, steps 4 and 5: calculate_pnl for the resolved address of a log,   *)
(* then match_positions with what was retrieved                            *)

\* A MeteoraPnlResult in the units of the matcher section (0.00001 SOL).
in_matcher_units(result) ==
  MeteoraPnlResult(result.deposited_sol * 100, result.withdrawn_sol * 100,
                   result.fees_sol * 100, result.pnl_sol * 100)

\* `if result: meteora_results[pid] = result`: a MeteoraPnlResult is always
\* truthy, None is not.
truthy(result) == result # None

MainLogs == {<<OpenA1, CloseA>>, <<OpenA1, RugA>>}

\* Longest list the API returns to the call main makes.
MaxMainTx == 1

\* Entries whose SOL equivalents stay within the range pct_of divides in.
MainTransactions == {TxSol, TxBoth, TxMalformed}

MainTxLists == {Failed} \cup {Ok(l) : l \in SeqsUpTo(MainTransactions, MaxMainTx)}

\* The address of AB12 is resolved; no PnL has been retrieved yet.
MainInit ==
  /\ pc = "meteora"
  /\ csv_exists = FALSE
  /\ positions_csv = <<>>
  /\ new_matched = <<>>
  /\ new_still_open = <<>>
  /\ existing_rows = <<>>
  /\ merged_matched = <<>>
  /\ merged_still_open = <<>>
  /\ call \in {[log |-> log, meteora_results |-> <<>>,
                 resolved_addresses |-> ("AB12" :> "AB12xxxxAB12"),
                 use_discord_pnl |-> use_discord_pnl] :
                  log \in MainLogs, use_discord_pnl \in BOOLEAN}
  /\ returned = None
  /\ NewCalculator
  /\ ToolsIdle

\* calculate_pnl returned for the address: its result is stored under the
\* position id when it is truthy.
StoreResult ==
  /\ pc = "meteora"
  /\ pnl_pc = "returned"
  /\ pc' = "idle"
  /\ call' = [call EXCEPT !.meteora_results =
                IF truthy(pnl_result)
                THEN ("AB12" :> in_matcher_units(Val(pnl_result)))
                ELSE <<>>]
  /\ UNCHANGED <<csv_exists, positions_csv, new_matched, new_still_open,
                 existing_rows, merged_matched, merged_still_open, returned,
                 pnlVars, toolVars>>

\* One resolved address: calculate_pnl is called once, on an empty pair cache.
MainNext ==
  \/ /\ pc = "meteora"
     /\ pnl_pc # "returned"
     /\ \/ \E pos_info \in PositionInfos : GetPosition(pos_info)
        \/ \E pair_info \in PairInfos : GetSolSide(pair_info)
        \/ \E deposits \in MainTxLists : GetDeposits(deposits)
        \/ \E withdraws \in MainTxLists : GetWithdraws(withdraws)
        \/ \E fees_list \in MainTxLists : GetClaimFees(fees_list)
  \/ StoreResult
  \/ pc = "idle" /\ MatchPositions

MainSpec == MainInit /\ [][MainNext]_vars

----------------------------------------------------------------------------
(* merge.py: merge_positions_csvs (union-merge mode, --merge)              *)

\* str.strip() of a position_id cell: ids have no whitespace, a blank cell
\* becomes ''.
strip(position_id) == IF position_id = " " THEN "" ELSE position_id

\* all_rows: the rows of the files, in the order of csv_paths.
RECURSIVE all_rows_of(_)
all_rows_of(csv_paths) ==
  IF csv_paths = <<>> THEN <<>>
  ELSE Head(csv_paths) \o all_rows_of(Tail(csv_paths))

\* A dict that keeps the first row assigned to a key.
RECURSIVE seen_ids_first(_, _)
seen_ids_first(rows, seen) ==
  IF rows = <<>> THEN seen
  ELSE LET row == Head(rows)
           position_id == strip(row.position_id)
       IN  IF position_id = ""
              \/ \E i \in DOMAIN seen : strip(seen[i].position_id) = position_id
           THEN seen_ids_first(Tail(rows), seen)
           ELSE seen_ids_first(Tail(rows), Append(seen, row))

\* seen_ids.values() after the loop: one row per key, the keys in the order
\* of their first assignment, each with the row assigned last.
RECURSIVE seen_ids_of(_, _)
seen_ids_of(rows, seen) ==
  IF rows = <<>> THEN seen
  ELSE LET row == Head(rows)
           position_id == strip(row.position_id)
       IN  IF position_id = "" THEN seen_ids_of(Tail(rows), seen)
           ELSE IF \E i \in DOMAIN seen : strip(seen[i].position_id) = position_id
           THEN seen_ids_of(Tail(rows),
                            [i \in DOMAIN seen |->
                               IF strip(seen[i].position_id) = position_id
                               THEN row ELSE seen[i]])
           ELSE seen_ids_of(Tail(rows), Append(seen, row))

\* deduplicated_rows, as written to the merged positions.csv.
merge_positions_csvs(csv_paths) ==
  LET all_rows == all_rows_of(csv_paths)
  IN  SelectSeq(all_rows, LAMBDA row : strip(row.position_id) = "")
        \o seen_ids_of(all_rows, <<>>)

NoRemote == [resolved_addresses |-> <<>>, meteora_results |-> <<>>]

RemoteA1 ==
  [resolved_addresses |-> ("AB12" :> "AB12xxxxAB12"),
   meteora_results |-> ("AB12" :> ResultA1)]

\* The positions.csv a run over the log writes into an empty directory.
CsvOf(log, remote, use_discord_pnl) ==
  LET m == match_positions(EventParser(log), remote.meteora_results,
                           remote.resolved_addresses, use_discord_pnl)
  IN  generate_positions_csv(m.matched_positions, m.unmatched_opens)

\* A row whose position_id cell was blanked by hand.
BlankIdRow == [StillOpenRow(OpenB) EXCEPT !.position_id = " "]

\* Files handed to --merge: AB12 still open and an orphan rug; AB12 closed
\* with Meteora PnL; AB12 closed and pending; CD34 still open and an orphan
\* rug; a hand-edited file.
UnionFiles ==
  {CsvOf(<<OpenA1, RugNoId>>, NoRemote, FALSE),
   CsvOf(<<OpenA1, CloseA>>, RemoteA1, FALSE),
   CsvOf(<<OpenA1, CloseA>>, NoRemote, FALSE),
   CsvOf(<<OpenB, RugNoId>>, NoRemote, FALSE),
   <<BlankIdRow>>}

\* Most files one call is given.
MaxFiles == 2

MergePositionsCsvs(csv_paths) ==
  /\ merge_output = None
  /\ merge_inputs' = csv_paths
  /\ merge_output' = Some(merge_positions_csvs(csv_paths))
  /\ UNCHANGED <<remerge_inputs, remerge_output, importVars, rpcVars,
                 mergeVars, matchVars, pnlVars>>

\* --merge is run again, over the merged file and the files of the first run.
MergeAgain(csv_paths) ==
  /\ merge_output # None
  /\ remerge_output = None
  /\ remerge_inputs' = csv_paths
  /\ remerge_output' = Some(merge_positions_csvs(csv_paths))
  /\ UNCHANGED <<merge_inputs, merge_output, importVars, rpcVars,
                 mergeVars, matchVars, pnlVars>>

UnionNext ==
  \/ \E csv_paths \in SeqsUpTo(UnionFiles, MaxFiles) \ {<<>>} :
       MergePositionsCsvs(csv_paths)
  \/ \E csv_paths \in
         SeqsUpTo({merge_inputs[i] : i \in DOMAIN merge_inputs}
                    \cup (IF merge_output = None THEN {} ELSE {Val(merge_output)}),
                  MaxFiles) \ {<<>>} :
       MergeAgain(csv_paths)

UnionSpec == Init /\ [][UnionNext]_vars

----------------------------------------------------------------------------
(* json_io.py: merge_with_imported (--import-json)                         *)

\* The still_open dict export_to_json writes for an OpenEvent.
still_open_dict(open_event) ==
  [position_id |-> open_event.position_id,
   token |-> open_event.token_name,
   target_wallet |-> open_event.target,
   position_type |-> open_event.position_type,
   datetime_open |-> make_iso_datetime(open_event.date, open_event.timestamp),
   sol_deployed |-> open_event.your_sol,
   mc_at_open |-> open_event.market_cap,
   jup_score |-> open_event.jup_score,
   token_age |-> open_event.token_age]

\* The MatchedPosition import_from_json builds from an exported position:
\* the JSON holds the datetimes, not the "[HH:MM]" timestamps.
imported_position_of(pos) ==
  [pos EXCEPT !.timestamp_open = 0, !.timestamp_close = 0]

\* The OpenEvent merge_with_imported builds from a still_open dict: the
\* timestamp and the date are cut out of datetime_open.
open_event_from_dict(open_dict) ==
  OpenEvent(open_dict.datetime_open.time,
            open_dict.position_type,
            open_dict.token,
            open_dict.target_wallet,
            open_dict.mc_at_open,
            open_dict.token_age,
            open_dict.jup_score,
            open_dict.sol_deployed,
            open_dict.position_id,
            open_dict.datetime_open.date)

\* A dict by position_id that keeps the first item assigned to a key.
RECURSIVE by_id_first(_, _)
by_id_first(items, d) ==
  IF items = <<>> THEN d
  ELSE LET item == Head(items)
       IN  IF item.position_id = ""
              \/ \E i \in DOMAIN d : d[i].position_id = item.position_id
           THEN by_id_first(Tail(items), d)
           ELSE by_id_first(Tail(items), Append(d, item))

\* `if x.position_id: d[x.position_id] = x` for each item; the result is
\* d.values(): the keys in the order of their first assignment, each with the
\* item assigned last.
RECURSIVE by_id_of(_, _)
by_id_of(items, d) ==
  IF items = <<>> THEN d
  ELSE LET item == Head(items)
       IN  IF item.position_id = "" THEN by_id_of(Tail(items), d)
           ELSE IF \E i \in DOMAIN d : d[i].position_id = item.position_id
           THEN by_id_of(Tail(items),
                         [i \in DOMAIN d |->
                            IF d[i].position_id = item.position_id
                            THEN item ELSE d[i]])
           ELSE by_id_of(Tail(items), Append(d, item))

merge_with_imported(new_positions, imported_positions, new_opens, imported_still_open) ==
  LET positions_by_id == by_id_of(new_positions, by_id_of(imported_positions, <<>>))
      new_position_ids ==
        {new_positions[i].position_id : i \in DOMAIN new_positions} \ {""}
      kept == SelectSeq(imported_still_open,
                        LAMBDA open_dict :
                          ~(open_dict.position_id # ""
                            /\ open_dict.position_id \in new_position_ids))
      still_open_events == [i \in DOMAIN kept |-> open_event_from_dict(kept[i])]
      opens_by_id == by_id_of(new_opens, by_id_of(still_open_events, <<>>))
  IN  [merged_positions |-> positions_by_id, merged_opens |-> opens_by_id]

\* The arguments main passes: the matcher output of the current log, and the
\* JSON exported after a run over an earlier log.
ImportArgs(new_log, old_log) ==
  LET new == match_positions(EventParser(new_log), <<>>, <<>>, TRUE)
      old == match_positions(EventParser(old_log), <<>>, <<>>, TRUE)
  IN  [new_positions |-> new.matched_positions,
       imported_positions |->
         [i \in DOMAIN old.matched_positions |->
            imported_position_of(old.matched_positions[i])],
       new_opens |-> new.unmatched_opens,
       imported_still_open |->
         [i \in DOMAIN old.unmatched_opens |->
            still_open_dict(old.unmatched_opens[i])]]

MergeWithImported(new_log, old_log) ==
  LET args == ImportArgs(new_log, old_log)
  IN  /\ import_result = None
      /\ import_args' = args
      /\ import_result' =
           Some(merge_with_imported(args.new_positions, args.imported_positions,
                                    args.new_opens, args.imported_still_open))
      /\ UNCHANGED <<unionVars, rpcVars, mergeVars, matchVars, pnlVars>>

ImportNext == \E new_log \in Logs, old_log \in Logs : MergeWithImported(new_log, old_log)

ImportSpec == Init /\ [][ImportNext]_vars

----------------------------------------------------------------------------
(* solana_rpc.py: SolanaRpcClient.get_transaction                          *)
(* Times are integers in 0.1 s.                                            *)

\* for attempt in range(5)
MaxAttempts == 5

\* The cap of self._delay: 5.0 s.
DelayCap == 50

RECURSIVE Pow2(_)
Pow2(n) == IF n = 0 THEN 1 ELSE 2 * Pow2(n - 1)

\* 5 * (2 ** attempt) seconds.
backoff(attempt) == 50 * Pow2(attempt)

\* A delay that doubles without a cap.
next_delay_uncapped(delay) == delay * 2

\* min(self._delay * 2, 5.0)
next_delay(delay) == IF delay * 2 < DelayCap THEN delay * 2 ELSE DelayCap

\* keys: the strings among accountKeys and the pubkey of the objects.
extract_keys(account_keys) ==
  LET usable == SelectSeq(account_keys, LAMBDA key : key.kind \in {"str", "dict"})
  IN  [i \in DOMAIN usable |-> usable[i].v]

\* accountKeys of a response: none, strings, objects with a pubkey and one
\* entry that is neither.
AccountKeys ==
  {<<>>,
   <<[kind |-> "str", v |-> "Key1"], [kind |-> "str", v |-> "Key2"]>>,
   <<[kind |-> "dict", v |-> "Key1"], [kind |-> "int", v |-> "7"]>>}

\* What a request comes back with: a result, an empty result, HTTP 429,
\* another HTTP error, or any other exception (timeout, malformed body).
Outcomes ==
  {[kind |-> "result", account_keys |-> k] : k \in AccountKeys}
    \cup {[kind |-> k, account_keys |-> <<>>] :
            k \in {"empty", "http429", "http_other", "exception"}}

\* get_transaction is called.
GetTransaction ==
  /\ rpc_pc \in {"idle", "returned"}
  /\ rpc_pc' = "request"
  /\ rpc_attempt' = 0
  /\ rpc_requests' = 0
  /\ rpc_slept' = 0
  /\ rpc_outcome' = "none"
  /\ rpc_return' = None
  /\ UNCHANGED <<rpc_delay, unionVars, importVars, mergeVars, matchVars, pnlVars>>

\* One iteration of the loop: the request is sent and answered.
Request(outcome) ==
  /\ rpc_pc = "request"
  /\ rpc_attempt < MaxAttempts
  /\ rpc_requests' = rpc_requests + 1
  /\ rpc_outcome' = outcome.kind
  /\ IF outcome.kind = "result"
     THEN /\ rpc_slept' = rpc_delay
          /\ rpc_return' = Some(extract_keys(outcome.account_keys))
          /\ rpc_pc' = "returned"
          /\ UNCHANGED <<rpc_attempt, rpc_delay>>
     ELSE IF outcome.kind \in {"empty", "http_other"}
     THEN /\ rpc_return' = None
          /\ rpc_pc' = "returned"
          /\ UNCHANGED <<rpc_attempt, rpc_delay, rpc_slept>>
     ELSE IF outcome.kind = "http429"
     THEN /\ rpc_slept' = backoff(rpc_attempt)
          /\ rpc_delay' = next_delay(rpc_delay)
          /\ rpc_attempt' = rpc_attempt + 1
          /\ rpc_pc' = IF rpc_attempt + 1 < MaxAttempts THEN "request" ELSE "returned"
          /\ rpc_return' = None
     ELSE IF rpc_attempt < 4
     THEN /\ rpc_slept' = backoff(rpc_attempt)
          /\ rpc_attempt' = rpc_attempt + 1
          /\ rpc_pc' = "request"
          /\ UNCHANGED <<rpc_delay, rpc_return>>
     ELSE /\ rpc_return' = None
          /\ rpc_pc' = "returned"
          /\ UNCHANGED <<rpc_attempt, rpc_delay, rpc_slept>>
  /\ UNCHANGED <<unionVars, importVars, mergeVars, matchVars, pnlVars>>

RpcNext ==
  \/ GetTransaction
  \/ \E outcome \in Outcomes : Request(outcome)

RpcSpec == Init /\ [][RpcNext]_vars

----------------------------------------------------------------------------
(* Properties of the incremental merge                                     *)

\* pending < discord < meteora; a still_open row has no source and ranks lowest.
TrustRank(pnl_source) ==
  IF pnl_source = "meteora" THEN 3
  ELSE IF pnl_source = "discord" THEN 2
  ELSE 1

WithId(items, pid) == SelectSeq(items, LAMBDA e : e.position_id = pid)

\* The new batch has nothing for the id.
NoNewData(pid) == ~HasKey(new_matched, pid) /\ ~HasKey(new_still_open, pid)

MoneyFields ==
  {"sol_deployed", "sol_received", "pnl_sol", "pnl_pct", "meteora_deposited",
   "meteora_withdrawn", "meteora_fees", "meteora_pnl"}

\* C1: over any sequence of runs the trust rank of the pnl_source persisted for
\* a position_id never decreases from one state of positions.csv to the next.
C1_TrustMonotonic ==
  [][\A pid \in PositionIds :
       (HasKey(positions_csv, pid) /\ HasKey(positions_csv', pid))
         => TrustRank(DictValue(positions_csv', pid).pnl_source)
              >= TrustRank(DictValue(positions_csv, pid).pnl_source)]_vars

\* C2: every persisted meteora row has, in the merged positions, a record of
\* the same id that is still meteora and has the persisted PnL and meteora_*
\* values, whatever the new batch holds for the id; the rewritten file keeps
\* them too.
C2_MeteoraKept ==
  pc = "merged" =>
    \A i \in DOMAIN existing_rows :
      existing_rows[i].pnl_source = "meteora" =>
        /\ \E j \in DOMAIN merged_matched :
             /\ merged_matched[j].position_id = existing_rows[i].position_id
             /\ merged_matched[j].pnl_source = "meteora"
             /\ \A f \in MoneyFields : merged_matched[j][f] = existing_rows[i][f]
        /\ \E j \in DOMAIN positions_csv :
             /\ positions_csv[j].position_id = existing_rows[i].position_id
             /\ positions_csv[j].pnl_source = "meteora"
             /\ \A f \in MoneyFields : positions_csv[j][f] = existing_rows[i][f]

\* A persisted meteora row met a new meteora position with other PnL values.
C2_Witness ==
  /\ pc = "merged"
  /\ \E i \in DOMAIN existing_rows, k \in DOMAIN new_matched :
       /\ existing_rows[i].pnl_source = "meteora"
       /\ new_matched[k].position_id = existing_rows[i].position_id
       /\ new_matched[k].pnl_source = "meteora"
       /\ new_matched[k].meteora_pnl # existing_rows[i].meteora_pnl

\* C3: merging the same batch again into the file the merge produced gives
\* the same file: the same rows, the same split between closed positions and
\* still_open rows.
C3_Idempotent ==
  pc = "merged" =>
    LET again == merge_with_existing_csv(new_matched, new_still_open, positions_csv)
    IN  generate_positions_csv(again.merged_matched, again.merged_still_open)
          = positions_csv

\* A non-empty batch changed a non-empty file.
C3_Witness ==
  /\ pc = "merged"
  /\ existing_rows # <<>>
  /\ new_matched # <<>>
  /\ new_still_open # <<>>
  /\ positions_csv # existing_rows

\* C4: a persisted record with open and close datetimes and pnl_source meteora
\* is the one merged position of its id, every field as it was read, for every
\* new batch; the rewritten row is the persisted row.
C4_CompleteIsTerminal ==
  pc = "merged" =>
    \A pid \in PositionIds :
      HasKey(existing_rows, pid) =>
        LET row == DictValue(existing_rows, pid)
        IN  (/\ row.datetime_open # NoDatetime
             /\ row.datetime_close # NoDatetime
             /\ row.pnl_source = "meteora")
              => /\ WithId(merged_matched, pid) = <<existing_pos_of(row)>>
                 /\ WithId(merged_still_open, pid) = <<>>
                 /\ WithId(positions_csv, pid) = <<row>>

\* A complete record met a batch holding other open data for its id.
C4_Witness ==
  /\ pc = "merged"
  /\ \E pid \in PositionIds :
       /\ HasKey(existing_rows, pid)
       /\ DictValue(existing_rows, pid).datetime_open # NoDatetime
       /\ DictValue(existing_rows, pid).datetime_close # NoDatetime
       /\ DictValue(existing_rows, pid).pnl_source = "meteora"
       /\ HasKey(new_matched, pid)
       /\ DictValue(new_matched, pid).timestamp_open # 0
       /\ DictValue(new_matched, pid).token # DictValue(existing_rows, pid).token

\* The open data the new batch supplies for an id, as None or Some(new_pos).
SuppliedOpen(pid) ==
  IF HasKey(new_matched, pid) /\ DictValue(new_matched, pid).timestamp_open # 0
  THEN Some(DictValue(new_matched, pid))
  ELSE IF HasKey(new_still_open, pid)
  THEN Some(open_as_matched(DictValue(new_still_open, pid), pid))
  ELSE None

\* C5: a persisted meteora record with close_reason unknown_open or
\* rug_unknown_open, merged with a batch that supplies open data for its id,
\* gets close_reason normal resp. rug and the open timestamp, token, position
\* type, market cap, jup score and token age of the new data, and keeps its PnL
\* and meteora_* values; with no open data in the batch it is kept as it was.
C5_Absorption ==
  pc = "merged" =>
    \A pid \in PositionIds :
      HasKey(existing_rows, pid) =>
        LET row == DictValue(existing_rows, pid)
            open == SuppliedOpen(pid)
            got == WithId(merged_matched, pid)
        IN  (row.pnl_source = "meteora"
               /\ row.close_reason \in {"unknown_open", "rug_unknown_open"})
              => /\ Len(got) = 1
                 /\ WithId(merged_still_open, pid) = <<>>
                 /\ \A f \in MoneyFields : got[1][f] = row[f]
                 /\ got[1].pnl_source = "meteora"
                 /\ IF open = None
                    THEN got[1] = existing_pos_of(row)
                    ELSE /\ got[1].close_reason =
                              (IF row.close_reason = "rug_unknown_open"
                               THEN "rug" ELSE "normal")
                         /\ got[1].timestamp_open = Val(open).timestamp_open
                         /\ got[1].timestamp_open # 0
                         /\ Val(open).datetime_open # NoDatetime
                              => got[1].datetime_open = Val(open).datetime_open
                         /\ got[1].token = Val(open).token
                         /\ got[1].position_type = Val(open).position_type
                         /\ got[1].mc_at_open = Val(open).mc_at_open
                         /\ got[1].jup_score = Val(open).jup_score
                         /\ got[1].token_age = Val(open).token_age
                         /\ got[1].token_age_days = Val(open).token_age_days
                         /\ got[1].token_age_hours = Val(open).token_age_hours

\* A rug_unknown_open meteora record met the still-open event of its id.
C5_Witness ==
  /\ pc = "merged"
  /\ \E pid \in PositionIds :
       /\ HasKey(existing_rows, pid)
       /\ DictValue(existing_rows, pid).pnl_source = "meteora"
       /\ DictValue(existing_rows, pid).close_reason = "rug_unknown_open"
       /\ HasKey(new_still_open, pid)
       /\ HasKey(merged_matched, pid)
       /\ DictValue(merged_matched, pid).close_reason = "rug"

C7_KeptWithoutNewData ==
  pc = "merged" =>
    \A pid \in PositionIds :
      (HasKey(existing_rows, pid) /\ NoNewData(pid)) =>
        LET row == DictValue(existing_rows, pid)
            ev == WithId(merged_still_open, pid)
        IN  IF row.close_reason = "still_open"
            THEN /\ WithId(merged_matched, pid) = <<>>
                 /\ Len(ev) = 1
                 /\ ev[1].token_name = row.token
                 /\ ev[1].target = row.target_wallet
                 /\ ev[1].position_type = row.position_type
                 /\ Some(ev[1].your_sol) = row.sol_deployed
                 /\ ev[1].date = row.datetime_open.date
                 /\ ev[1].timestamp = row.datetime_open.time
            ELSE /\ WithId(merged_matched, pid) = <<existing_pos_of(row)>>
                 /\ ev = <<>>

\* C8: every non-empty id of the persisted rows or of the new batch occurs
\* exactly once in the merge output, as a position or as a still-open event;
\* an id of the new batch only is returned as the new data has it; no other id
\* is returned.
C8_UnionByKey ==
  pc = "merged" =>
    /\ \A pid \in PositionIds :
         LET known == HasKey(existing_rows, pid)
             fresh == HasKey(new_matched, pid) \/ HasKey(new_still_open, pid)
         IN  /\ (known \/ fresh)
                  => Len(WithId(merged_matched, pid))
                       + Len(WithId(merged_still_open, pid)) = 1
             /\ (~known /\ HasKey(new_matched, pid))
                  => WithId(merged_matched, pid) = <<DictValue(new_matched, pid)>>
             /\ (~known /\ HasKey(new_still_open, pid))
                  => WithId(merged_still_open, pid) = <<DictValue(new_still_open, pid)>>
             /\ (~known /\ ~fresh)
                  => WithId(merged_matched, pid) = <<>>
                       /\ WithId(merged_still_open, pid) = <<>>
    /\ \A j \in DOMAIN merged_matched : merged_matched[j].position_id \in PositionIds
    /\ \A j \in DOMAIN merged_still_open : merged_still_open[j].position_id \in PositionIds

\* One id came from the file only, another from the new batch only.
C8_Witness ==
  /\ pc = "merged"
  /\ \E p1 \in PositionIds, p2 \in PositionIds :
       /\ HasKey(existing_rows, p1) /\ NoNewData(p1)
       /\ ~HasKey(existing_rows, p2)
       /\ HasKey(new_still_open, p2)
       /\ HasKey(merged_still_open, p2)

----------------------------------------------------------------------------
(* Properties of match_positions                                           *)

\* The Close and Rug events of the log handed to the matcher.
IsTerminating(event) == event.kind \in {"Close", "Rug"}

\* C9: with use_discord_pnl false, every Close or Rug event (with or without
\* an Open, with or without a position_id) for which meteora_results has no
\* result has an emitted Position, and every Position emitted for such an id
\* has pnl_source pending and sol_deployed, sol_received, pnl_sol and pnl_pct
\* None.
C9_NoFabrication ==
  (returned # None /\ ~call.use_discord_pnl) =>
    LET positions == Val(returned).matched_positions
        NoResult(pid) == pid \notin DOMAIN call.meteora_results
        Absent(pos) == /\ pos.pnl_source = "pending"
                       /\ pos.sol_deployed = None
                       /\ pos.sol_received = None
                       /\ pos.pnl_sol = None
                       /\ pos.pnl_pct = None
    IN  /\ \A i \in DOMAIN call.log :
             (IsTerminating(call.log[i]) /\ NoResult(call.log[i].position_id))
               => \E j \in DOMAIN positions :
                    /\ positions[j].position_id = call.log[i].position_id
                    /\ positions[j].timestamp_close = call.log[i].timestamp
                    /\ Absent(positions[j])
        /\ \A j \in DOMAIN positions :
             NoResult(positions[j].position_id) => Absent(positions[j])

\* Without the fallback, a Close or Rug of an id with no PnL result and a Rug
\* without position_id were matched in one call.
C9_Witness ==
  /\ returned # None
  /\ ~call.use_discord_pnl
  /\ \E j1, j2 \in DOMAIN Val(returned).matched_positions :
       LET p1 == Val(returned).matched_positions[j1]
           p2 == Val(returned).matched_positions[j2]
       IN  /\ p1.close_reason \in {"normal", "unknown_open", "rug"}
           /\ p1.position_id \notin DOMAIN call.meteora_results
           /\ p1.pnl_source = "pending"
           /\ p2.position_id = ""
           /\ p2.close_reason = "rug_unknown_open"
           /\ p2.pnl_sol = None

\* C10: a Position emitted for a Close or Rug event with a position_id has
\* pnl_source meteora exactly when meteora_results holds a result for the id,
\* whether or not the fallback is enabled; without a result it has discord
\* when use_discord_pnl is true and pending when it is false.
C10_SourcePrecedence ==
  returned # None =>
    LET positions == Val(returned).matched_positions
        Expected(pid) == IF pid \in DOMAIN call.meteora_results THEN "meteora"
                         ELSE IF call.use_discord_pnl THEN "discord"
                         ELSE "pending"
    IN  /\ \A i \in DOMAIN call.log :
             (IsTerminating(call.log[i]) /\ call.log[i].position_id # "")
               => \E j \in DOMAIN positions :
                    /\ positions[j].position_id = call.log[i].position_id
                    /\ positions[j].pnl_source = Expected(call.log[i].position_id)
        /\ \A j \in DOMAIN positions :
             positions[j].position_id # ""
               => positions[j].pnl_source = Expected(positions[j].position_id)

\* With the fallback enabled, one id had a PnL result and another had none.
C10_Witness ==
  /\ returned # None
  /\ call.use_discord_pnl
  /\ \E j1, j2 \in DOMAIN Val(returned).matched_positions :
       LET p1 == Val(returned).matched_positions[j1]
           p2 == Val(returned).matched_positions[j2]
       IN  /\ p1.position_id \in DOMAIN call.meteora_results
           /\ p1.pnl_source = "meteora"
           /\ p2.position_id # ""
           /\ p2.position_id \notin DOMAIN call.meteora_results
           /\ p2.pnl_source = "discord"

\* The ids of the Close events and of the Rug events of the log.
TerminatedIds ==
  {call.log[i].position_id : i \in {k \in DOMAIN call.log : IsTerminating(call.log[k])}}

CloseReasons == {"normal", "failsafe", "unknown_open"}

RugReasons == {"rug", "rug_unknown_open"}

\* C11: an id consumed by a Close event is skipped when a Rug event names it
\* again: the output holds exactly one Position for the id, the one built from
\* the Close event.
C11_CloseBeforeRug ==
  returned # None =>
    \A i \in DOMAIN call.log :
      call.log[i].kind = "Close" =>
        LET got == WithId(Val(returned).matched_positions, call.log[i].position_id)
        IN  /\ Len(got) = 1
            /\ got[1].close_reason \in CloseReasons

\* C12: an Open event is returned as still open exactly when no Close and no
\* Rug event has its id, and no Position is emitted for such an id; the ids
\* of the Positions and of the still-open events are disjoint; every Close id
\* has a Position built from a Close and every Rug event has a Position of
\* its own.
C12_SplitByTermination ==
  returned # None =>
    LET positions == Val(returned).matched_positions
        opens == Val(returned).unmatched_opens
    IN  /\ \A i \in DOMAIN call.log :
             call.log[i].kind = "Open" =>
               ((\E j \in DOMAIN opens : opens[j] = call.log[i])
                  <=> call.log[i].position_id \notin TerminatedIds)
        /\ \A j \in DOMAIN opens :
             /\ opens[j].kind = "Open"
             /\ \E i \in DOMAIN call.log : call.log[i] = opens[j]
             /\ WithId(positions, opens[j].position_id) = <<>>
        /\ \A i \in DOMAIN call.log :
             call.log[i].kind = "Close" =>
               \E j \in DOMAIN positions :
                 /\ positions[j].position_id = call.log[i].position_id
                 /\ positions[j].close_reason \in CloseReasons
        /\ Len(SelectSeq(positions, LAMBDA pos : pos.close_reason \in RugReasons))
             = Len(SelectSeq(call.log, LAMBDA e : e.kind = "Rug"))

\* One Open was rugged and the Open of another id stayed open in the same log.
C12_Witness ==
  /\ returned # None
  /\ Len(Val(returned).unmatched_opens) = 1
  /\ \E j \in DOMAIN Val(returned).matched_positions :
       Val(returned).matched_positions[j].close_reason = "rug"
  /\ Len(call.log) = 3

\* C13: a Position with pnl_source meteora has sol_deployed, sol_received,
\* pnl_sol, pnl_pct and the four meteora_* fields present, and they are the
\* values of the MeteoraPnlResult of its id, for Close and Rug events, with or
\* without an indexed Open, with or without the fallback.
C13_MeteoraFromResult ==
  returned # None =>
    \A j \in DOMAIN Val(returned).matched_positions :
      LET pos == Val(returned).matched_positions[j]
      IN  pos.pnl_source = "meteora" =>
            /\ pos.position_id \in DOMAIN call.meteora_results
            /\ LET result == call.meteora_results[pos.position_id]
               IN  /\ pos.sol_deployed = Some(result.deposited_sol)
                   /\ pos.meteora_deposited = Some(result.deposited_sol)
                   /\ pos.sol_received = Some(result.withdrawn_sol)
                   /\ pos.meteora_withdrawn = Some(result.withdrawn_sol)
                   /\ pos.pnl_sol = Some(result.pnl_sol)
                   /\ pos.meteora_pnl = Some(result.pnl_sol)
                   /\ pos.meteora_fees = Some(result.fees_sol)
                   /\ pos.pnl_pct # None

\* With the fallback enabled, a Close of one id and a Rug of another both got
\* the PnL of their results, not the estimates of the events.
C13_Witness ==
  /\ returned # None
  /\ call.use_discord_pnl
  /\ \E j1, j2 \in DOMAIN Val(returned).matched_positions :
       LET p1 == Val(returned).matched_positions[j1]
           p2 == Val(returned).matched_positions[j2]
       IN  /\ p1.pnl_source = "meteora" /\ p1.close_reason \in CloseReasons
           /\ p2.pnl_source = "meteora" /\ p2.close_reason \in RugReasons
           /\ p1.position_id # p2.position_id
           /\ p2.pnl_sol = Some(ResultA1.pnl_sol)

\* The Open event indexed for an id: the last one of the log.
LastOpen(pid) ==
  LET S == {i \in DOMAIN call.log :
              call.log[i].kind = "Open" /\ call.log[i].position_id = pid}
  IN  call.log[CHOOSE i \in S : \A k \in S : k <= i]

HasEvent(kind, pid) ==
  \E i \in DOMAIN call.log : call.log[i].kind = kind /\ call.log[i].position_id = pid

\* C14: whatever the PnL source, a Position built from a Close has close_reason
\* failsafe when the id has an Open and a Failsafe event, normal when it has an
\* Open and no Failsafe, unknown_open when it has no Open; a Position built from
\* a Rug has rug when the id has an Open and rug_unknown_open when it has none
\* or the Rug has no position_id; the last Open event of the id supplies the
\* open-side fields.
C14_CloseReason ==
  returned # None =>
    LET positions == Val(returned).matched_positions
        rugs == SelectSeq(call.log, LAMBDA e : e.kind = "Rug")
        rug_positions == SelectSeq(positions, LAMBDA pos : pos.close_reason \in RugReasons)
    IN  /\ \A i \in DOMAIN call.log :
             call.log[i].kind = "Close" =>
               \E j \in DOMAIN positions :
                 /\ positions[j].position_id = call.log[i].position_id
                 /\ positions[j].close_reason =
                      (IF HasEvent("Open", call.log[i].position_id)
                       THEN IF HasEvent("Failsafe", call.log[i].position_id)
                            THEN "failsafe" ELSE "normal"
                       ELSE "unknown_open")
        /\ Len(rug_positions) = Len(rugs)
        /\ \A k \in DOMAIN rugs :
             /\ rug_positions[k].position_id = rugs[k].position_id
             /\ rug_positions[k].close_reason =
                  (IF rugs[k].position_id # "" /\ HasEvent("Open", rugs[k].position_id)
                   THEN "rug" ELSE "rug_unknown_open")
        /\ \A j \in DOMAIN positions :
             LET pos == positions[j]
             IN  IF pos.position_id # "" /\ HasEvent("Open", pos.position_id)
                 THEN LET open == LastOpen(pos.position_id)
                      IN  /\ pos.close_reason \in {"normal", "failsafe", "rug"}
                          /\ pos.token = open.token_name
                          /\ pos.position_type = open.position_type
                          /\ pos.timestamp_open = open.timestamp
                          /\ pos.datetime_open = [date |-> open.date, time |-> open.timestamp]
                          /\ pos.mc_at_open = open.market_cap
                          /\ pos.jup_score = open.jup_score
                          /\ pos.token_age = open.token_age
                 ELSE /\ pos.close_reason \in {"unknown_open", "rug_unknown_open"}
                      /\ pos.token = "unknown"
                      /\ pos.timestamp_open = 0

\* Two Open events of one id came before its Close: the later one was used.
C14_Witness ==
  /\ returned # None
  /\ call.log = <<OpenA1, OpenA2, CloseA>>
  /\ Val(returned).matched_positions[1].token = "Pepe"
  /\ Val(returned).matched_positions[1].close_reason = "normal"

\* The Close event that consumes an id: the first one of the log.
FirstClose(pid) ==
  LET S == {i \in DOMAIN call.log :
              call.log[i].kind = "Close" /\ call.log[i].position_id = pid}
  IN  call.log[CHOOSE i \in S : \A k \in S : i <= k]

\* pct is quotient * 100, to the nearest 0.001 percent (values in 0.00001 SOL).
IsPercentOf(pct, amount, base) ==
  LET whole == (amount * 100) \div base
      rest == ((amount * 100) % base) * 1000
      diff == rest - (pct - whole * 1000) * base
  IN  /\ pct >= whole * 1000
      /\ pct <= whole * 1000 + 1000
      /\ 2 * (IF diff < 0 THEN 0 - diff ELSE diff) <= base

\* C15: with the fallback enabled and no PnL result, a Close with an indexed
\* Open gives sol_received = ending_sol - starting_sol, pnl_sol = sol_received -
\* deployed, pnl_pct = pnl_sol / deployed * 100 (0 when deployed is not
\* positive) and pnl_source discord; deployed 2.0 and a balance delta of 2.6
\* give pnl_sol 0.6, pnl_pct 30.0 and, without Failsafe event, close_reason
\* normal.
C15_DiscordClose ==
  (returned # None /\ call.use_discord_pnl) =>
    \A j \in DOMAIN Val(returned).matched_positions :
      LET pos == Val(returned).matched_positions[j]
          pid == pos.position_id
      IN  (/\ pos.close_reason \in {"normal", "failsafe"}
           /\ pid \notin DOMAIN call.meteora_results)
            => LET close == FirstClose(pid)
                   deployed == Val(pos.sol_deployed)
                   delta == close.ending_sol - close.starting_sol
               IN  /\ pos.pnl_source = "discord"
                   /\ pos.sol_deployed # None
                   /\ pos.sol_received = Some(delta)
                   /\ pos.pnl_sol = Some(delta - deployed)
                   /\ pos.pnl_pct # None
                   /\ IF deployed > 0
                      THEN IsPercentOf(Val(pos.pnl_pct), delta - deployed, deployed)
                      ELSE pos.pnl_pct = Some(0)
                   /\ (deployed = 200000 /\ delta = 260000)
                        => /\ pos.pnl_sol = Some(60000)
                           /\ pos.pnl_pct = Some(30000)
                           /\ ~HasEvent("Failsafe", pid) => pos.close_reason = "normal"

\* Open with 2.0 SOL deployed and Close with a balance delta of 2.6 SOL, no
\* PnL result, fallback enabled.
C15_Witness ==
  /\ returned # None
  /\ call.use_discord_pnl
  /\ call.log = <<OpenA1, CloseA>>
  /\ call.meteora_results = <<>>
  /\ Val(returned).matched_positions[1].pnl_sol = Some(60000)
  /\ Val(returned).matched_positions[1].pnl_source = "discord"

\* C16: with the fallback enabled and no PnL result, a Rug with an indexed
\* Open gives pnl_sol = -(deployed * price_drop / 100), pnl_pct = -price_drop,
\* sol_received = 0, close_reason rug and pnl_source discord; deployed 2.0 and
\* a price drop of 40 percent give pnl_sol -0.8 and pnl_pct -40.0.  The product
\* is compared for price drops of whole percents.
C16_DiscordRug ==
  (returned # None /\ call.use_discord_pnl) =>
    LET rugs == SelectSeq(call.log, LAMBDA e : e.kind = "Rug")
        rug_positions == SelectSeq(Val(returned).matched_positions,
                                   LAMBDA pos : pos.close_reason \in RugReasons)
    IN  \A k \in DOMAIN rugs :
          LET pid == rugs[k].position_id
              drop == rugs[k].price_drop
          IN  (/\ k \in DOMAIN rug_positions
               /\ pid # ""
               /\ HasEvent("Open", pid)
               /\ pid \notin DOMAIN call.meteora_results)
                => LET pos == rug_positions[k]
                       deployed == Val(pos.sol_deployed)
                       loss == 0 - Val(pos.pnl_sol)
                       diff == loss * 100 - deployed * (drop \div 1000)
                   IN  /\ pos.close_reason = "rug"
                       /\ pos.pnl_source = "discord"
                       /\ pos.sol_deployed # None
                       /\ pos.sol_received = Some(0)
                       /\ pos.pnl_pct = Some(0 - drop)
                       /\ pos.pnl_sol # None
                       /\ drop % 1000 = 0
                            => 2 * (IF diff < 0 THEN 0 - diff ELSE diff) <= 100
                       /\ (deployed = 200000 /\ drop = 40000)
                            => pos.pnl_sol = Some(0 - 80000)

\* Open with 2.0 SOL deployed and Rug with a price drop of 40 percent, no PnL
\* result, fallback enabled.
C16_Witness ==
  /\ returned # None
  /\ call.use_discord_pnl
  /\ call.log = <<OpenA1, RugA>>
  /\ call.meteora_results = <<>>
  /\ Val(returned).matched_positions[1].pnl_sol = Some(0 - 80000)
  /\ Val(returned).matched_positions[1].pnl_pct = Some(0 - 40000)

\* C17: in the discord fallback the deployed amount of a position is the
\* your_sol of its indexed Open plus the amount_sol of every AddLiquidity event
\* of the same id, for a Close and for a Rug; AddLiquidity events of other ids
\* do not count.
C17_DeployedSum ==
  (returned # None /\ call.use_discord_pnl) =>
    \A j \in DOMAIN Val(returned).matched_positions :
      LET pos == Val(returned).matched_positions[j]
          pid == pos.position_id
          added == SelectSeq(call.log, LAMBDA e : e.kind = "AddLiquidity"
                                                  /\ e.position_id = pid)
      IN  (/\ pos.close_reason \in {"normal", "failsafe", "rug"}
           /\ pid \notin DOMAIN call.meteora_results)
            => pos.sol_deployed
                 = Some(LastOpen(pid).your_sol
                          + SumSeq([i \in DOMAIN added |-> added[i].amount_sol]))

\* A position was closed after liquidity was added to it.
C17_Witness ==
  /\ returned # None
  /\ call.use_discord_pnl
  /\ call.log = <<OpenA1, AddLiquidityA, CloseA>>
  /\ Val(returned).matched_positions[1].sol_deployed = Some(250000)
  /\ Val(returned).matched_positions[1].pnl_sol = Some(10000)

----------------------------------------------------------------------------
(* Properties of calculate_pnl                                             *)

\* The list a request returned; nothing when it failed or was not made.
ListOf(resp) == IF resp.ok THEN resp.body ELSE <<>>

\* The call returned a MeteoraPnlResult.
ReturnedResult == pnl_pc = "returned" /\ pnl_result # None

\* The call returned None.
ReturnedNone == pnl_pc = "returned" /\ pnl_result = None

\* The transactions the call has processed so far, in processing order.
Processed ==
  IF pnl_pc = "withdraws" THEN ListOf(responses.deposits)
  ELSE IF pnl_pc = "claim_fees"
       THEN ListOf(responses.deposits) \o ListOf(responses.withdraws)
  ELSE IF ReturnedResult
       THEN ListOf(responses.deposits) \o ListOf(responses.withdraws)
              \o ListOf(responses.fees_list)
  ELSE <<>>

SolRaw(entry, sol_is_x) ==
  IF sol_is_x THEN entry.token_x_amount ELSE entry.token_y_amount

SolUsd(entry, sol_is_x) ==
  IF sol_is_x THEN entry.token_x_usd_amount ELSE entry.token_y_usd_amount

TokUsd(entry, sol_is_x) ==
  IF sol_is_x THEN entry.token_y_usd_amount ELSE entry.token_x_usd_amount

SolAmount(entry, sol_is_x) == DivRound(SolRaw(entry, sol_is_x) * MilliPerSol, LAMPORTS)

\* The transaction implies a SOL price of its own.
HasOwnPrice(entry, sol_is_x) ==
  SolAmount(entry, sol_is_x) > 0 /\ SolUsd(entry, sol_is_x) > 0

OwnPrice(entry, sol_is_x) ==
  DivRound(SolUsd(entry, sol_is_x) * MilliPerSol, SolAmount(entry, sol_is_x))

\* The own price of the last of the first n transactions that has one; 0
\* when none has.
LastOwnPrice(stream, n, sol_is_x) ==
  LET J == {j \in 1..n : HasOwnPrice(stream[j], sol_is_x)}
  IN  IF J = {} THEN 0 ELSE OwnPrice(stream[MaxOf(J)], sol_is_x)

\* The SOL equivalent of a transaction converted at a given price.
ConvertAt(entry, sol_is_x, sol_price) ==
  SolAmount(entry, sol_is_x)
  + (IF TokUsd(entry, sol_is_x) > 0 /\ sol_price > 0
     THEN DivRound(TokUsd(entry, sol_is_x) * MilliPerSol, sol_price)
     ELSE 0)

\* Sum of the SOL equivalents of stream[lo..hi], each transaction converted
\* at the most recent own price up to and including itself.
RECURSIVE SolEquivSum(_, _, _, _)
SolEquivSum(stream, sol_is_x, lo, hi) ==
  IF lo > hi THEN 0
  ELSE ConvertAt(stream[hi], sol_is_x, LastOwnPrice(stream, hi, sol_is_x))
       + SolEquivSum(stream, sol_is_x, lo, hi - 1)

RECURSIVE UsdSum(_)
UsdSum(entries) ==
  IF entries = <<>> THEN 0
  ELSE Head(entries).token_x_usd_amount + Head(entries).token_y_usd_amount
       + UsdSum(Tail(entries))

\* C18: every MeteoraPnlResult has pnl_sol = withdrawn_sol + fees_sol -
\* deposited_sol and pnl_usd = withdrawn_usd + fees_usd - deposited_usd, and
\* each total is the sum over its list of the transactions' SOL equivalents
\* (USD amounts); the result is a function of the responses.
C18_Conservation ==
  ReturnedResult =>
    LET r == Val(pnl_result)
        sol_is_x == Val(sol_side).sol_is_x
        d == Len(ListOf(responses.deposits))
        w == Len(ListOf(responses.withdraws))
        f == Len(ListOf(responses.fees_list))
    IN  /\ r.pnl_sol = r.withdrawn_sol + r.fees_sol - r.deposited_sol
        /\ r.pnl_usd = r.withdrawn_usd + r.fees_usd - r.deposited_usd
        /\ r.deposited_sol = SolEquivSum(Processed, sol_is_x, 1, d)
        /\ r.withdrawn_sol = SolEquivSum(Processed, sol_is_x, d + 1, d + w)
        /\ r.fees_sol = SolEquivSum(Processed, sol_is_x, d + w + 1, d + w + f)
        /\ r.deposited_usd = UsdSum(ListOf(responses.deposits))
        /\ r.withdrawn_usd = UsdSum(ListOf(responses.withdraws))
        /\ r.fees_usd = UsdSum(ListOf(responses.fees_list))

\* Deposits of 2.0, withdrawals of 1.5 and fees of 0.1 SOL equivalent were
\* returned as a PnL of -0.4.
C18_Witness ==
  /\ ReturnedResult
  /\ responses.deposits.body # <<>>
  /\ Val(pnl_result).deposited_sol = 2000
  /\ Val(pnl_result).withdrawn_sol = 1500
  /\ Val(pnl_result).fees_sol = 100
  /\ Val(pnl_result).pnl_sol = -400

\* The position response is missing or names no pair.
MissingPosition ==
  /\ responses.pos_info.fetched
  /\ (~responses.pos_info.ok \/ responses.pos_info.body.pair_address = "")

\* The pair request failed or neither mint of the pair is SOL.
NoSolSide ==
  /\ responses.pair_info.fetched
  /\ \/ ~responses.pair_info.ok
     \/ /\ responses.pair_info.body.mint_x # SOL_MINT
        /\ responses.pair_info.body.mint_y # SOL_MINT

FetchFailed(resp) == resp.fetched /\ ~resp.ok

\* The list was returned and one of its entries is not numeric.
HasMalformed(resp) ==
  resp.ok /\ \E i \in 1..Len(resp.body) : ~resp.body[i].numeric

\* The three lists were returned (possibly empty) with numeric entries.
AllListsUsable ==
  \A resp \in {responses.deposits, responses.withdraws, responses.fees_list} :
    resp.ok /\ ~HasMalformed(resp)

\* C19: calculate_pnl returns None, and no MeteoraPnlResult, as soon as the
\* position or its pair address is missing, the SOL side cannot be
\* determined, one of the deposits, withdraws and claim_fees requests fails,
\* or an entry raises, whatever the earlier requests returned; three lists
\* that were returned, empty or not, give a result.
C19_NoPartialPnl ==
  /\ ( \/ MissingPosition
       \/ NoSolSide
       \/ \E resp \in {responses.deposits, responses.withdraws, responses.fees_list} :
            FetchFailed(resp) \/ HasMalformed(resp) )
     => ReturnedNone
  /\ (pnl_pc = "returned" /\ AllListsUsable) => ReturnedResult

\* The claim_fees request failed after deposits and withdrawals had been
\* returned and summed, and the call returned None.
C19_Witness ==
  /\ ReturnedNone
  /\ responses.deposits.ok /\ Len(responses.deposits.body) > 0
  /\ responses.withdraws.ok /\ Len(responses.withdraws.body) > 0
  /\ dep_totals.sol_equiv > 0
  /\ wdr_totals.sol_equiv > 0
  /\ FetchFailed(responses.fees_list)

\* C20: the requests are made and their lists processed in the order
\* deposits, withdraws, claim_fees, each list in the order returned; a
\* transaction with a positive SOL amount and SOL USD value is converted at
\* its own price, any other at the own price of the most recent earlier
\* transaction that has one (at no price when there is none), and the running
\* price is always the own price of the last processed transaction that has
\* one.
C20_PriceFallback ==
  /\ responses.withdraws.fetched => responses.deposits.ok
  /\ responses.fees_list.fetched => responses.withdraws.ok
  /\ (sol_side # None /\ ~ReturnedNone) =>
       LET sol_is_x == Val(sol_side).sol_is_x
           d == Len(ListOf(responses.deposits))
           w == Len(ListOf(responses.withdraws))
           n == Len(Processed)
       IN  /\ running_sol_price = LastOwnPrice(Processed, n, sol_is_x)
           /\ n >= d =>
                dep_totals.sol_equiv = SolEquivSum(Processed, sol_is_x, 1, d)
           /\ n >= d + w =>
                wdr_totals.sol_equiv = SolEquivSum(Processed, sol_is_x, d + 1, d + w)
           /\ ReturnedResult =>
                fee_totals.sol_equiv = SolEquivSum(Processed, sol_is_x, d + w + 1, n)

\* A result was returned for a stream in which a transaction without a price
\* of its own, and with a token side to convert, follows two transactions
\* whose own prices differ.
C20_Witness ==
  /\ ReturnedResult
  /\ \E i, j, k \in 1..Len(Processed) :
       LET sol_is_x == Val(sol_side).sol_is_x
       IN  /\ i < j /\ j < k
           /\ HasOwnPrice(Processed[i], sol_is_x)
           /\ HasOwnPrice(Processed[j], sol_is_x)
           /\ OwnPrice(Processed[i], sol_is_x) # OwnPrice(Processed[j], sol_is_x)
           /\ ~HasOwnPrice(Processed[k], sol_is_x)
           /\ TokUsd(Processed[k], sol_is_x) > 0
           /\ k > Len(ListOf(responses.deposits))

----------------------------------------------------------------------------
(* Properties of main's Meteora step                                       *)

\* C21: a computed PnL result that recovers nothing (withdrawn + fees of 0,
\* under every positive minimum) is not trusted: no position is given
\* pnl_source meteora from it.
C21_LowResultUntrusted ==
  returned # None =>
    \A i \in 1..Len(Val(returned).matched_positions) :
      LET p == Val(returned).matched_positions[i]
      IN  p.pnl_source = "meteora" =>
            Val(p.meteora_withdrawn) + Val(p.meteora_fees) > 0

----------------------------------------------------------------------------
(* Properties of merge_positions_csvs                                      *)

\* Number of times a row occurs in a list of rows.
CountIn(rows, row) == Cardinality({i \in DOMAIN rows : rows[i] = row})

\* The two lists hold the same rows, each as often.
SameRows(a, b) ==
  \A row \in {a[i] : i \in DOMAIN a} \cup {b[i] : i \in DOMAIN b} :
    CountIn(a, row) = CountIn(b, row)

\* Positions of the rows with the given (stripped) id.
RowsWithId(rows, position_id) ==
  {i \in DOMAIN rows : strip(rows[i].position_id) = position_id}

\* C22: after a union merge every non-empty position_id of the input files
\* has exactly one output row, the last row with that id in the
\* concatenation of the files, whatever its pnl_source; every row with an
\* empty position_id is in the output as often as in the input.
C22_LastFileWins ==
  merge_output # None =>
    LET all_rows == all_rows_of(merge_inputs)
        out == Val(merge_output)
    IN  /\ \A i \in DOMAIN all_rows :
             LET position_id == strip(all_rows[i].position_id)
             IN  IF position_id = ""
                 THEN CountIn(out, all_rows[i])
                        = CountIn(SelectSeq(all_rows,
                                    LAMBDA row : strip(row.position_id) = ""),
                                  all_rows[i])
                 ELSE /\ Cardinality(RowsWithId(out, position_id)) = 1
                      /\ \A j \in RowsWithId(out, position_id) :
                           out[j] = all_rows[MaxOf(RowsWithId(all_rows, position_id))]
        /\ \A j \in DOMAIN out : \E i \in DOMAIN all_rows : out[j] = all_rows[i]

\* Two files held the same id, the earlier file with Meteora PnL and the
\* later one pending, and the output holds the pending row.
C22_Witness ==
  /\ merge_output # None
  /\ \E i, j \in DOMAIN all_rows_of(merge_inputs) :
       /\ i < j
       /\ all_rows_of(merge_inputs)[i].position_id = "AB12"
       /\ all_rows_of(merge_inputs)[j].position_id = "AB12"
       /\ all_rows_of(merge_inputs)[i].pnl_source = "meteora"
       /\ all_rows_of(merge_inputs)[j].pnl_source = "pending"
  /\ \E k \in DOMAIN Val(merge_output) :
       /\ Val(merge_output)[k].position_id = "AB12"
       /\ Val(merge_output)[k].pnl_source = "pending"

\* The second call merges the output of the first with files of the first.
OutputRemerged ==
  /\ remerge_output # None
  /\ Head(remerge_inputs) = Val(merge_output)
  /\ \A k \in 2..Len(remerge_inputs) :
       \E i \in DOMAIN merge_inputs : remerge_inputs[k] = merge_inputs[i]

\* The second call is given the one file of the first call twice.
FileSuppliedTwice ==
  /\ remerge_output # None
  /\ Len(merge_inputs) = 1
  /\ remerge_inputs = merge_inputs \o merge_inputs

\* C29: merging the output of a union merge again with files of that merge,
\* or supplying a file twice, gives the rows of the first merge, each as
\* often, the rows with an empty position_id included.
C29_UnionIdempotent ==
  (OutputRemerged \/ FileSuppliedTwice) =>
    SameRows(Val(remerge_output), Val(merge_output))

----------------------------------------------------------------------------
(* Properties of merge_with_imported                                       *)

\* The non-empty position ids of a list of positions, events or dicts.
IdsOf(items) == {items[i].position_id : i \in DOMAIN items} \ {""}

\* The items of a list that carry the id.
WithIdIn(items, position_id) ==
  {items[i] : i \in {j \in DOMAIN items : items[j].position_id = position_id}}

\* C23: in the result of merge_with_imported an id of both the imported and
\* the new positions has the new position; an imported still-open entry
\* whose id is among the new positions is not among the merged still-open
\* events; an id of both the imported still-open entries and the new
\* still-open events has the new event; an id of one side only is carried
\* over.
C23_NewDataWins ==
  import_result # None =>
    LET a == import_args
        r == Val(import_result)
    IN  /\ \A id \in IdsOf(a.new_positions) :
             /\ WithIdIn(r.merged_positions, id) \subseteq WithIdIn(a.new_positions, id)
             /\ Cardinality({i \in DOMAIN r.merged_positions :
                               r.merged_positions[i].position_id = id}) = 1
             /\ id \in IdsOf(a.imported_still_open) =>
                  \A e \in WithIdIn(r.merged_opens, id) : e \in WithIdIn(a.new_opens, id)
        /\ \A id \in IdsOf(a.new_opens) :
             /\ WithIdIn(r.merged_opens, id) \subseteq WithIdIn(a.new_opens, id)
             /\ Cardinality({i \in DOMAIN r.merged_opens :
                               r.merged_opens[i].position_id = id}) = 1
        /\ \A id \in IdsOf(a.imported_positions) \ IdsOf(a.new_positions) :
             /\ WithIdIn(r.merged_positions, id) # {}
             /\ WithIdIn(r.merged_positions, id) \subseteq WithIdIn(a.imported_positions, id)
        /\ \A id \in IdsOf(a.imported_still_open)
                       \ (IdsOf(a.new_positions) \cup IdsOf(a.new_opens)) :
             /\ WithIdIn(r.merged_opens, id) # {}
             /\ WithIdIn(r.merged_opens, id) \subseteq
                  {open_event_from_dict(d) : d \in WithIdIn(a.imported_still_open, id)}
        /\ IdsOf(r.merged_positions) = IdsOf(a.new_positions) \cup IdsOf(a.imported_positions)
        /\ IdsOf(r.merged_opens) =
             IdsOf(a.new_opens)
               \cup (IdsOf(a.imported_still_open) \ IdsOf(a.new_positions))

\* AB12 was imported as closed and as nothing else, the new batch closes it
\* differently, and CD34 was imported still open and is closed by nothing.
C23_Witness ==
  /\ import_result # None
  /\ \E p \in WithIdIn(import_args.imported_positions, "AB12") :
       \E q \in WithIdIn(import_args.new_positions, "AB12") :
         /\ p.close_reason # q.close_reason
         /\ q \in WithIdIn(Val(import_result).merged_positions, "AB12")
  /\ "CD34" \in IdsOf(import_args.imported_still_open)
  /\ "CD34" \in IdsOf(Val(import_result).merged_opens)

\* C30: merge_with_imported returns no position_id both as a merged position
\* and as a merged still-open event.
C30_ClosedXorOpen ==
  import_result # None =>
    IdsOf(Val(import_result).merged_positions)
      \cap IdsOf(Val(import_result).merged_opens) = {}

----------------------------------------------------------------------------
(* Properties of SolanaRpcClient.get_transaction                           *)

RpcReturned == rpc_pc = "returned"

\* What the last request of the current call led to.
RetryInvariant ==
  /\ rpc_requests <= MaxAttempts
  /\ rpc_pc = "request" => rpc_requests < MaxAttempts
  /\ rpc_requests = MaxAttempts => RpcReturned
  /\ rpc_outcome = "result" => RpcReturned /\ rpc_return # None
  /\ rpc_outcome \in {"empty", "http_other"} => RpcReturned /\ rpc_return = None
  /\ rpc_outcome \in {"http429", "exception"} =>
       IF rpc_requests < MaxAttempts
       THEN rpc_pc = "request" /\ rpc_slept = 50 * Pow2(rpc_requests - 1)
       ELSE RpcReturned /\ rpc_return = None
  /\ rpc_return # None => rpc_outcome = "result"
  /\ rpc_delay >= 7 /\ rpc_delay <= 50

\* C24: get_transaction sends at most 5 requests and has returned after the
\* fifth; it returns the keys on a result, None at once on an empty result or
\* an HTTP error other than 429, tries again after 5 * 2^attempt seconds on
\* HTTP 429 and on other exceptions, and returns None when the 5 attempts are
\* used up; the delay between requests never decreases and never exceeds
\* 5.0 s.
C24_BoundedRetry == [][RetryInvariant' /\ rpc_delay' >= rpc_delay]_vars

\* Five requests in a row were answered with HTTP 429: the call returned None
\* and the delay is at its cap.
C24_Witness ==
  /\ RpcReturned
  /\ rpc_requests = 5
  /\ rpc_outcome = "http429"
  /\ rpc_return = None
  /\ rpc_delay = 50

----------------------------------------------------------------------------
(* Properties of the incremental merge over re-sent logs                   *)

\* A persisted row of a closed position: it has a close date and time and a
\* close_reason other than still_open.
IsClosedRow(row) ==
  /\ row.close_reason # "still_open"
  /\ row.datetime_close # NoDatetime

\* C25: an id persisted as a closed record is never returned as a still-open
\* event by a later merge, and is not written back as a still_open row,
\* whatever the new batch holds for the id.
C25_ClosedStaysClosed ==
  pc = "merged" =>
    \A pid \in PositionIds :
      (HasKey(existing_rows, pid) /\ IsClosedRow(DictValue(existing_rows, pid))) =>
        /\ WithId(merged_still_open, pid) = <<>>
        /\ DictValue(positions_csv, pid).close_reason # "still_open"

\* The new batch closes the id without open data: its log held only the Close
\* or the Rug event.
ClosedWithoutOpen(pid) ==
  /\ HasKey(new_matched, pid)
  /\ DictValue(new_matched, pid).close_reason \in {"unknown_open", "rug_unknown_open"}

\* C26: when a persisted still_open row meets a new position of the same id
\* closed as unknown_open or rug_unknown_open, the merged record of the id has
\* the token, position type, open date and time, market cap and jup score of
\* the persisted row.
C26_OpenSideSurvives ==
  pc = "merged" =>
    \A pid \in PositionIds :
      (/\ HasKey(existing_rows, pid)
       /\ DictValue(existing_rows, pid).close_reason = "still_open"
       /\ ClosedWithoutOpen(pid)) =>
        LET row == DictValue(existing_rows, pid)
            merged == WithId(merged_matched, pid)
        IN  /\ Len(merged) = 1
            /\ merged[1].token = row.token
            /\ merged[1].position_type = row.position_type
            /\ merged[1].datetime_open = row.datetime_open
            /\ merged[1].mc_at_open = row.mc_at_open
            /\ merged[1].jup_score = row.jup_score

\* The items of a list that have no position_id.
Orphans(items) == WithId(items, "")

\* C28: every position of the new batch without a position_id and every
\* persisted row without a position_id is among the merged positions.
C28_OrphansKept ==
  pc = "merged" =>
    /\ \A i \in DOMAIN Orphans(new_matched) :
         \E j \in DOMAIN merged_matched : merged_matched[j] = Orphans(new_matched)[i]
    /\ \A i \in DOMAIN Orphans(existing_rows) :
         \E j \in DOMAIN merged_matched :
           merged_matched[j] = existing_pos_of(Orphans(existing_rows)[i])

----------------------------------------------------------------------------
(* Properties of match_positions on logs with repeated events              *)

\* The non-empty position ids of the events of the log.
LogIds == {call.log[i].position_id : i \in DOMAIN call.log} \ {""}

\* C27: match_positions returns at most one Position and at most one
\* still-open event for every non-empty position_id of the log, also when
\* the log holds the Rug or the Open event of an id more than once.
C27_OnePerId ==
  returned # None =>
    \A pid \in LogIds :
      /\ Len(WithId(Val(returned).matched_positions, pid)) <= 1
      /\ Len(WithId(Val(returned).unmatched_opens, pid)) <= 1

====
